---- MODULE Spec2Model ----
(***************************************************************************)
(* Model of the tile-paging engine of bigimageviewer: the pyramid-image    *)
(* geometry of BigImage / DZImage / LIImage and the LoadedImage canvas     *)
(* (load_image, scroll, scroll_to, zoom_to, resize).                       *)
(*                                                                         *)
(* A canvas pixel is 0 (np.zeros background) or the identity of one pixel  *)
(* of one zoom level of the image (SourcePixel), so that "this slot holds  *)
(* that tile's pixels" is a statement about values.                        *)
(***************************************************************************)
EXTENDS Integers, Sequences, FiniteSets, TLC

\* ------------------------------------------------------------------------
\* Bounds of the model
\* ------------------------------------------------------------------------
\* width of the full-size level of the strip image
StripWidth == 15
\* side of the full-size level of the square image
SquareSide == 9
\* number of operations on one engine after it is opened
MaxSteps == 2
\* width and height of the tiles of the image with huge tiles
HugeTile == 10001

\* ------------------------------------------------------------------------
\* Python helpers
\* ------------------------------------------------------------------------
None == <<>>

Min(a, b) == IF a < b THEN a ELSE b

Max(a, b) == IF a > b THEN a ELSE b

\* int(math.ceil(a / b)) for a >= 0, b > 0
CeilDiv(a, b) == (a + b - 1) \div b

\* int(n / d) : float division truncated towards zero
TruncDiv(n, d) == IF n >= 0 THEN n \div d ELSE -((-n) \div d)

RECURSIVE Pow2(_)
Pow2(n) == IF n <= 0 THEN 1 ELSE 2 * Pow2(n - 1)

\* a[start:stop] on an axis of length n: the half-open range <<lo, hi>>
PySlice(start, stop, n) ==
    LET norm(i) == IF i < 0 THEN Max(i + n, 0) ELSE Min(i, n)
        lo == norm(start)
        hi == norm(stop)
    IN  <<lo, Max(lo, hi)>>

SliceLen(sl) == sl[2] - sl[1]

\* numpy assignment dst[...] = src[...]: src must broadcast to dst
Broadcastable(srclen, dstlen) == srclen = dstlen \/ srclen = 1

\* ------------------------------------------------------------------------
\* State
\* ------------------------------------------------------------------------
VARIABLES
    image,          \* the BigImage (DZImage or LIImage) metadata, read-only
    loaded_image,   \* the LoadedImage object (its fields)
    result,         \* what the last operation returned ("True", "False",
                    \* "None") or the exception it raised
    steps,          \* number of operations on the engine since it was opened
    op,             \* the last operation
    args,           \* its arguments
    old,            \* the fields of the engine before it, without the pixels
    fetched         \* the tiles load_tile was called with during it, in order

vars == <<image, loaded_image, result, steps, op, args, old, fetched>>

\* ------------------------------------------------------------------------
\* BigImage geometry (bigimage.py, dzimage.py, liimage.py)
\* ------------------------------------------------------------------------
FIT == -1

RECURSIVE HalveCeil(_, _)
HalveCeil(w, k) == IF k = 0 THEN w ELSE HalveCeil(CeilDiv(w, 2), k - 1)

max_zoom == IF image.kind = "DZ"
            THEN Max(0, CHOOSE d \in image.dirs : \A e \in image.dirs : e <= d)
            ELSE image.levels - 1

min_zoom == IF image.kind = "DZ"
            THEN CHOOSE d \in image.dirs : \A e \in image.dirs : d <= e
            ELSE 0

\* the zoom levels that have registered dimensions (keys of _zoom_to_width)
Registered(z) == IF image.kind = "DZ" THEN z \in image.dirs
                 ELSE z \in 0..(image.levels - 1)

\* a variant that halves a DeepZoom width downwards
zoom_to_width_Floor(z) == image.width \div Pow2(max_zoom - z)

zoom_to_width(z) ==
    IF image.kind = "DZ"
    THEN HalveCeil(image.width, Cardinality({e \in image.dirs : e > z}))
    ELSE image.width \div Pow2(max_zoom - z)

zoom_to_height(z) ==
    IF image.kind = "DZ"
    THEN HalveCeil(image.height, Cardinality({e \in image.dirs : e > z}))
    ELSE image.height \div Pow2(max_zoom - z)

\* what a call gives: the value it returns, or the exception it raises
Returned(v) == [raised |-> "", value |-> v]

Raised(e) == [raised |-> e, value |-> None]

\* a variant that looks up any zoom
image_width_for_zoom_AnyZoom(z) == Returned(zoom_to_width(z))

image_width_for_zoom(z) ==
    IF Registered(z) THEN Returned(zoom_to_width(z)) ELSE Raised("ZoomError")

image_height_for_zoom(z) ==
    IF Registered(z) THEN Returned(zoom_to_height(z)) ELSE Raised("ZoomError")

tile_width == image.tile_width

tile_height == image.tile_height

num_tiles_across(z) == Max(1, CeilDiv(image_width_for_zoom(z).value, tile_width))

num_tiles_down(z) == Max(1, CeilDiv(image_height_for_zoom(z).value, tile_height))

\* int(x/self.tile_width+0.0001)
x_to_tile(x) == TruncDiv(10000 * x + tile_width, 10000 * tile_width)

y_to_tile(y) == TruncDiv(10000 * y + tile_height, 10000 * tile_height)

left_overlap(tile) ==
    IF image.kind = "DZ" THEN (IF tile = 0 THEN 0 ELSE image.overlap) ELSE 0

\* a variant that gives every tile a right overlap
right_overlap_AnyTile(tile, z) == IF image.kind = "DZ" THEN image.overlap ELSE 0

right_overlap(tile, z) ==
    IF image.kind = "DZ"
    THEN (IF tile = num_tiles_across(z) - 1 THEN 0 ELSE image.overlap)
    ELSE 0

top_overlap(tile) ==
    IF image.kind = "DZ" THEN (IF tile = 0 THEN 0 ELSE image.overlap) ELSE 0

bottom_overlap(tile, z) ==
    IF image.kind = "DZ"
    THEN (IF tile = num_tiles_down(z) - 1 THEN 0 ELSE image.overlap)
    ELSE 0

tile_start_x(tile) ==
    IF image.kind = "DZ"
    THEN tile * tile_width - (IF tile = 0 THEN 0 ELSE image.overlap)
    ELSE tile * tile_width

tile_start_y(tile) ==
    IF image.kind = "DZ"
    THEN tile * tile_height - (IF tile = 0 THEN 0 ELSE image.overlap)
    ELSE tile * tile_height

\* a variant that never trims the end to the image
tile_end_x_plus_one_Untrimmed(tile, z) ==
    tile_start_x(tile) + tile_width + left_overlap(tile) + right_overlap(tile, z)

tile_end_x_plus_one(tile, z) ==
    IF image.kind = "DZ"
    THEN Min(tile_start_x(tile) + tile_width + left_overlap(tile)
                 + right_overlap(tile, z), zoom_to_width(z))
    ELSE Min(tile_start_x(tile) + tile_width, zoom_to_width(z))

tile_end_y_plus_one(tile, z) ==
    IF image.kind = "DZ"
    THEN Min(tile_start_y(tile) + tile_height + top_overlap(tile)
                 + bottom_overlap(tile, z), zoom_to_height(z))
    ELSE Min(tile_start_y(tile) + tile_height, zoom_to_height(z))

tile_width_at_zoom(tile, z) == tile_end_x_plus_one(tile, z) - tile_start_x(tile)

tile_height_at_zoom(tile, z) == tile_end_y_plus_one(tile, z) - tile_start_y(tile)

\* a variant of the test of the loop that accepts a height equal to the
\* viewport's
Fits_HeightEqual(z, vw, vh) ==
    /\ image_width_for_zoom(z).value <= vw
    /\ image_height_for_zoom(z).value <= vh

\* the test of the loop of fit_to_viewport
Fits(z, vw, vh) ==
    /\ image_width_for_zoom(z).value <= vw
    /\ image_height_for_zoom(z).value < vh

\* the loop of fit_to_viewport from level z down to 0 and the return after
\* it: a level without dimensions is skipped (ZoomError is caught), width
\* and height are those of the last level that had dimensions, and after
\* the loop z is its last value, 0
RECURSIVE FitScan(_, _, _, _, _)
FitScan(z, vw, vh, width, height) ==
    IF z < 0 THEN <<0, width, height>>
    ELSE IF ~Registered(z) THEN FitScan(z - 1, vw, vh, width, height)
    ELSE IF Fits(z, vw, vh)
    THEN <<z, image_width_for_zoom(z).value, image_height_for_zoom(z).value>>
    ELSE FitScan(z - 1, vw, vh, image_width_for_zoom(z).value,
                 image_height_for_zoom(z).value)

\* (zoom, width, height)
fit_to_viewport(vw, vh) == FitScan(max_zoom, vw, vh, None, None)

\* the value of pixel (x, y) of zoom level z of the image (never 0)
SourcePixel(z, x, y) == 1 + x + image.width * (y + image.height * z)

\* img = load_tile(tilex, tiley, zoom): the shape is the expected tile size
\* (anything else raises FileFormatError), img[j][i] is the image pixel at
\* the tile's start plus (i, j)
load_tile(tilex, tiley, z) ==
    [h |-> tile_height_at_zoom(tiley, z),
     w |-> tile_width_at_zoom(tilex, z),
     x0 |-> tile_start_x(tilex),
     y0 |-> tile_start_y(tiley),
     z |-> z]

\* the shape (height, width) of what load_tile returns when the tile file
\* (DZImage, cv2.imread) or the tile source (LIImage, getTile) holds an
\* array of shape stored; stored is None when cv2.imread cannot read the
\* file and returns None, whose .shape raises AttributeError
load_tile_shape(tilex, tiley, z, stored) ==
    LET expected_width == tile_width_at_zoom(tilex, z)
        expected_height == tile_height_at_zoom(tiley, z)
    IN  IF image.kind = "DZ"
        THEN IF stored = None THEN Raised("AttributeError")
             ELSE IF stored[2] /= expected_width \/ stored[1] /= expected_height
             THEN Raised("FileFormatError")
             ELSE Returned(stored)
        ELSE IF \/ stored[2] = tile_width /\ expected_width < tile_width
                \/ stored[1] = tile_height /\ expected_height < tile_height
             THEN Returned(<<Min(stored[1], expected_height),
                            Min(stored[2], expected_width)>>)
             ELSE Returned(stored)

\* ------------------------------------------------------------------------
\* Opening an image (DZImage.open, LIImage.open)
\* ------------------------------------------------------------------------
\* an attribute of a tag of the .dzi file, or a key of the metadata of
\* large_image: present or not, its text a number or not, the number
Absent == [present |-> FALSE, numeric |-> FALSE, n |-> 0]

Number(n) == [present |-> TRUE, numeric |-> TRUE, n |-> n]

NotANumber == [present |-> TRUE, numeric |-> FALSE, n |-> 0]

\* Width and Height: the attribute of the Size tag if there is one, else
\* the attribute of the Image tag
DZWidth(f) == IF f.size_tag /\ f.SizeWidth.present THEN f.SizeWidth ELSE f.Width

DZHeight(f) == IF f.size_tag /\ f.SizeHeight.present THEN f.SizeHeight ELSE f.Height

\* the object after a successful open; levels is the number of zoom
\* directories
DZOpened(f) ==
    [kind |-> "DZ", width |-> DZWidth(f).n, height |-> DZHeight(f).n,
     tile_width |-> f.TileSize.n, tile_height |-> f.TileSize.n,
     overlap |-> IF f.Overlap.present THEN f.Overlap.n ELSE 0,
     dirs |-> f.dirs, levels |-> Cardinality(f.dirs)]

\* DZImage.open on a new object: self._width and self._height exist only
\* once a Width or Height attribute was read, so the tests "is None" of a
\* file without them raise AttributeError; os.listdir raises
\* FileNotFoundError when the directory of the tiles does not exist
DZOpen(f) ==
    IF ~f.image_tag THEN Raised("FileFormatError")
    ELSE IF ~f.TileSize.present THEN Raised("FileFormatError")
    ELSE IF ~f.Format THEN Raised("FileFormatError")
    ELSE IF ~DZWidth(f).present THEN Raised("AttributeError")
    ELSE IF ~DZHeight(f).present THEN Raised("AttributeError")
    ELSE IF ~DZWidth(f).numeric THEN Raised("FileFormatError")
    ELSE IF ~DZHeight(f).numeric THEN Raised("FileFormatError")
    ELSE IF f.Overlap.present /\ ~f.Overlap.numeric THEN Raised("FileFormatError")
    ELSE IF ~f.TileSize.numeric THEN Raised("FileFormatError")
    ELSE IF ~f.files_dir THEN Raised("FileNotFoundError")
    ELSE Returned(DZOpened(f))

LIOpened(f) ==
    [kind |-> "LI", width |-> f.sizeX.n, height |-> f.sizeY.n,
     tile_width |-> f.tileWidth.n, tile_height |-> f.tileHeight.n,
     overlap |-> 0,
     dirs |-> 0..(IF f.levels.present THEN f.levels.n - 1 ELSE 0),
     levels |-> IF f.levels.present THEN f.levels.n ELSE 1]

\* LIImage.open: f is the metadata large_image gives for the file
LIOpen(f) ==
    IF ~f.tileWidth.present THEN Raised("FileFormatError")
    ELSE IF ~f.tileHeight.present THEN Raised("FileFormatError")
    ELSE IF ~f.sizeX.present THEN Raised("FileFormatError")
    ELSE IF ~f.sizeY.present THEN Raised("FileFormatError")
    ELSE Returned(LIOpened(f))

\* open(filename)
open(f) == IF f.kind = "DZ" THEN DZOpen(f) ELSE LIOpen(f)

\* ------------------------------------------------------------------------
\* LoadedImage (loadedimage.py)
\* ------------------------------------------------------------------------
\* self._pixels: None, or an array of h rows and w columns stored row by row
NoPixels == [alloc |-> FALSE, h |-> 0, w |-> 0, d |-> <<>>]

\* np.zeros((canvas_height, canvas_width, channel))
Zeros(h, w) == [alloc |-> TRUE, h |-> h, w |-> w, d |-> [k \in 1..(h * w) |-> 0]]

\* self._pixels[r, c]
At(px, r, c) == px.d[r * px.w + c + 1]

\* LoadedImage.__init__(image, extra_tiles = 2)
extra_tiles == 2

NewLoadedImage ==
    [viewport_x |-> None, viewport_y |-> None,
     viewport_width |-> 0, viewport_height |-> 0,
     zoom |-> None,
     zoomed_image_width |-> None, zoomed_image_height |-> None,
     canvas_x |-> 0, canvas_y |-> 0,
     canvas_width |-> None, canvas_height |-> None,
     tile_xstart |-> None, tile_ystart |-> None,
     tile_xend |-> None, tile_yend |-> None,
     viewport_x_on_fullimage |-> 0, viewport_y_on_fullimage |-> 0,
     tiles_across_in_canvas |-> None, tiles_down_in_canvas |-> None,
     pixels |-> NoPixels]

\* the zoom setter: clamps into [min_zoom, max_zoom] unless the value is -1
set_zoom(s, value) ==
    [s EXCEPT !.zoom = IF value = FIT THEN FIT
                       ELSE Min(Max(value, min_zoom), max_zoom)]

\* the tiles of the window in the order of the two loops of _load_tiles
TileOrder(s) ==
    LET nx == s.tile_xend - s.tile_xstart
        ny == s.tile_yend - s.tile_ystart
    IN  [k \in 1..(nx * ny) |->
            <<s.tile_xstart + ((k - 1) % nx), s.tile_ystart + ((k - 1) \div nx)>>]

InImage(t, z) == /\ t[1] >= 0 /\ t[1] < num_tiles_across(z)
                 /\ t[2] >= 0 /\ t[2] < num_tiles_down(z)

InWindow(t, w) == /\ t[1] >= w.tile_xstart /\ t[1] < w.tile_xend
                  /\ t[2] >= w.tile_ystart /\ t[2] < w.tile_yend

Window(s) == [tile_xstart |-> s.tile_xstart, tile_xend |-> s.tile_xend,
              tile_ystart |-> s.tile_ystart, tile_yend |-> s.tile_yend]

\* the tiles _load_tiles fetches: in the image, and not "already loaded"
\* a variant that looks at the columns of the old window only
SkipLoaded_ColumnsOnly(t, skip_loaded, oldw) ==
    skip_loaded /\ t[1] >= oldw.tile_xstart /\ t[1] < oldw.tile_xend

SkipLoaded(t, skip_loaded, oldw) == skip_loaded /\ InWindow(t, oldw)

\* a variant that fetches every tile of the window that is in the image
TilesToLoad_All(s, skip_loaded, oldw) ==
    SelectSeq(TileOrder(s), LAMBDA t : InImage(t, s.zoom))

TilesToLoad(s, skip_loaded, oldw) ==
    SelectSeq(TileOrder(s),
              LAMBDA t : InImage(t, s.zoom) /\ ~SkipLoaded(t, skip_loaded, oldw))

\* column of the canvas where the slot of tile tilex starts
SlotX(s, tilex) == tile_width * (tilex - s.tile_xstart)

SlotY(s, tiley) == tile_height * (tiley - s.tile_ystart)

\* the body of the inner loop for one tile: the slices of the assignment
\* self._pixels[ypos:endy_on_canvas, xpos:endx_on_canvas]
\*     = img[starty_on_tile:endy_on_tile, startx_on_tile:endx_on_tile]
TileCopy(px, s, t) ==
    LET img == load_tile(t[1], t[2], s.zoom)
        lo == left_overlap(t[1])
        ro == right_overlap(t[1], s.zoom)
        to == top_overlap(t[2])
        bo == bottom_overlap(t[2], s.zoom)
        xpos == SlotX(s, t[1])
        ypos == SlotY(s, t[2])
        endx_on_tile == img.w - ro
        endy_on_tile == img.h - bo
        endx_on_canvas == xpos + endx_on_tile - lo
        endy_on_canvas == ypos + endy_on_tile - to
    IN  [img |-> img,
         dr |-> PySlice(ypos, endy_on_canvas, px.h),
         dc |-> PySlice(xpos, endx_on_canvas, px.w),
         sr |-> PySlice(to, endy_on_tile, img.h),
         sc |-> PySlice(lo, endx_on_tile, img.w)]

CopyFits(cp) == /\ Broadcastable(SliceLen(cp.sr), SliceLen(cp.dr))
                /\ Broadcastable(SliceLen(cp.sc), SliceLen(cp.dc))

\* source index for destination index i of an axis (a length-1 source is
\* broadcast)
SrcIndex(i, dst, src) == IF SliceLen(src) = 1 THEN src[1] ELSE src[1] + (i - dst[1])

WriteTile(px, cp) ==
    [px EXCEPT !.d =
        [k \in 1..(px.h * px.w) |->
            LET r == (k - 1) \div px.w
                c == (k - 1) % px.w
            IN  IF /\ r >= cp.dr[1] /\ r < cp.dr[2]
                   /\ c >= cp.dc[1] /\ c < cp.dc[2]
                THEN SourcePixel(cp.img.z,
                                 cp.img.x0 + SrcIndex(c, cp.dc, cp.sc),
                                 cp.img.y0 + SrcIndex(r, cp.dr, cp.sr))
                ELSE px.d[k]]]

\* the loop, one tile after the other; it stops at the first assignment that
\* numpy rejects
RECURSIVE LoadSeq(_, _, _, _)
LoadSeq(px, s, tiles, k) ==
    IF k > Len(tiles) THEN [pixels |-> px, raised |-> "", fetched |-> tiles]
    ELSE LET cp == TileCopy(px, s, tiles[k])
         IN  IF ~CopyFits(cp)
             THEN [pixels |-> px, raised |-> "ValueError",
                   fetched |-> SubSeq(tiles, 1, k)]
             ELSE LoadSeq(WriteTile(px, cp), s, tiles, k + 1)

\* the copy of every tile of column tilex stays inside the slot and has the
\* width of its source
ColumnInSlot(px, s, tilex) ==
    LET img_w == tile_width_at_zoom(tilex, s.zoom)
        lo == left_overlap(tilex)
        endx_on_tile == img_w - right_overlap(tilex, s.zoom)
        xpos == SlotX(s, tilex)
        dc == PySlice(xpos, xpos + endx_on_tile - lo, px.w)
        sc == PySlice(lo, endx_on_tile, img_w)
    IN  /\ SliceLen(sc) = SliceLen(dc)
        /\ dc[1] = xpos /\ dc[2] <= xpos + tile_width

RowInSlot(px, s, tiley) ==
    LET img_h == tile_height_at_zoom(tiley, s.zoom)
        to == top_overlap(tiley)
        endy_on_tile == img_h - bottom_overlap(tiley, s.zoom)
        ypos == SlotY(s, tiley)
        dr == PySlice(ypos, ypos + endy_on_tile - to, px.h)
        sr == PySlice(to, endy_on_tile, img_h)
    IN  /\ SliceLen(sr) = SliceLen(dr)
        /\ dr[1] = ypos /\ dr[2] <= ypos + tile_height

SlotsFit(px, s) ==
    /\ \A tx \in s.tile_xstart..(s.tile_xend - 1) :
           (tx >= 0 /\ tx < num_tiles_across(s.zoom)) => ColumnInSlot(px, s, tx)
    /\ \A ty \in s.tile_ystart..(s.tile_yend - 1) :
           (ty >= 0 /\ ty < num_tiles_down(s.zoom)) => RowInSlot(px, s, ty)

\* some tile of the window is fetched (the array is allocated at the first)
AnyToLoad(s, skip_loaded, oldw) ==
    \E tx \in s.tile_xstart..(s.tile_xend - 1), ty \in s.tile_ystart..(s.tile_yend - 1) :
        InImage(<<tx, ty>>, s.zoom) /\ ~SkipLoaded(<<tx, ty>>, skip_loaded, oldw)

\* the image column that the trimmed copy of the tile of the slot of canvas
\* column c puts there, or -1 when that tile is outside the image or its
\* trimmed copy does not reach column c
ColSource(s, c) ==
    LET tx == s.tile_xstart + (c \div tile_width)
        off == c - SlotX(s, tx)
        lo == left_overlap(tx)
    IN  IF /\ tx >= 0 /\ tx < num_tiles_across(s.zoom)
           /\ off < tile_width_at_zoom(tx, s.zoom) - lo - right_overlap(tx, s.zoom)
        THEN tile_start_x(tx) + lo + off
        ELSE -1

RowSource(s, r) ==
    LET ty == s.tile_ystart + (r \div tile_height)
        off == r - SlotY(s, ty)
        to == top_overlap(ty)
    IN  IF /\ ty >= 0 /\ ty < num_tiles_down(s.zoom)
           /\ off < tile_height_at_zoom(ty, s.zoom) - to - bottom_overlap(ty, s.zoom)
        THEN tile_start_y(ty) + to + off
        ELSE -1

RECURSIVE ColSources(_, _)
ColSources(s, n) ==
    IF n = 0 THEN <<>> ELSE Append(ColSources(s, n - 1), ColSource(s, n - 1))

RECURSIVE RowSources(_, _)
RowSources(s, n) ==
    IF n = 0 THEN <<>> ELSE Append(RowSources(s, n - 1), RowSource(s, n - 1))

\* the same loop when every copy stays inside its own slot: the copies are
\* disjoint, so each canvas pixel is written by the tile of its slot or not
\* at all
LoadSlots(px, s, skip_loaded, oldw) ==
    LET cols == ColSources(s, px.w)
        rows == RowSources(s, px.h)
    IN  [px EXCEPT !.d =
          [k \in 1..(px.h * px.w) |->
            LET r == (k - 1) \div px.w
                c == (k - 1) % px.w
                t == <<s.tile_xstart + (c \div tile_width),
                       s.tile_ystart + (r \div tile_height)>>
            IN  IF /\ cols[c + 1] >= 0
                   /\ rows[r + 1] >= 0
                   /\ ~SkipLoaded(t, skip_loaded, oldw)
                THEN SourcePixel(s.zoom, cols[c + 1], rows[r + 1])
                ELSE px.d[k]]]

\* _load_tiles: returns the new pixel array, the exception raised, if any,
\* and the tiles it called load_tile with
load_tiles(s, init_matrix, skip_loaded, oldw) ==
    LET start == IF init_matrix /\ AnyToLoad(s, skip_loaded, oldw)
                 THEN Zeros(s.canvas_height, s.canvas_width)
                 ELSE s.pixels
    IN  IF SlotsFit(start, s)
        THEN [pixels |-> LoadSlots(start, s, skip_loaded, oldw), raised |-> "",
              fetched |-> TilesToLoad(s, skip_loaded, oldw)]
        ELSE LoadSeq(start, s, TilesToLoad(s, skip_loaded, oldw), 1)

\* the clamp of load_image (lines 199-212) on one axis
ClampLoad(x, vsize, zsize) ==
    LET a == IF zsize /= None /\ x + vsize >= zsize[1] THEN zsize[1] - vsize ELSE x
    IN  IF a < 0 THEN 0 ELSE a

TilesAcrossInCanvas(vw) == CeilDiv(vw, tile_width) + extra_tiles * 2

\* a variant without the extra tiles
TilesDownInCanvas_NoExtra(vh) == CeilDiv(vh, tile_height)

TilesDownInCanvas(vh) == CeilDiv(vh, tile_height) + extra_tiles * 2

\* load_image, lines 187-189: the size of the image at the requested zoom
SetZoomedSize(s) ==
    IF s.zoom /= FIT
    THEN [s EXCEPT !.zoomed_image_width = <<image_width_for_zoom(s.zoom).value>>,
                   !.zoomed_image_height = <<image_height_for_zoom(s.zoom).value>>]
    ELSE s

\* lines 194-212: the top-left from the centre, if one is given, clamped
SetTopLeft(s, center) ==
    [s EXCEPT
       !.viewport_x_on_fullimage =
           ClampLoad(IF center /= None
                     THEN center[1] - (s.viewport_width \div 2) ELSE @,
                     s.viewport_width, s.zoomed_image_width),
       !.viewport_y_on_fullimage =
           ClampLoad(IF center /= None
                     THEN center[2] - (s.viewport_height \div 2) ELSE @,
                     s.viewport_height, s.zoomed_image_height)]

\* lines 216-222: the zoom that fits the viewport, and its dimensions
AdoptFit(s, fit) ==
    [s EXCEPT !.zoom = fit[1],
              !.zoomed_image_width = <<fit[2]>>,
              !.zoomed_image_height = <<fit[3]>>,
              !.canvas_width = fit[2],
              !.canvas_height = fit[3]]

FitZoom(s) ==
    IF s.zoom = FIT
    THEN AdoptFit(s, fit_to_viewport(s.viewport_width, s.viewport_height))
    ELSE s

\* lines 226-236
SetTilesInCanvas(s) ==
    [s EXCEPT !.tiles_across_in_canvas = TilesAcrossInCanvas(s.viewport_width),
              !.tiles_down_in_canvas = TilesDownInCanvas(s.viewport_height)]

\* lines 245-262: the tile window, the canvas size and its origin
SetWindowAt(s, xstart, ystart) ==
    [s EXCEPT !.tile_xstart = xstart,
              !.tile_ystart = ystart,
              !.tile_xend = xstart + s.tiles_across_in_canvas,
              !.tile_yend = ystart + s.tiles_down_in_canvas,
              !.canvas_width = s.tiles_across_in_canvas * tile_width,
              !.canvas_height = s.tiles_down_in_canvas * tile_height,
              !.canvas_x = tile_start_x(xstart),
              !.canvas_y = tile_start_y(ystart)]

SetWindow(s) ==
    SetWindowAt(s, x_to_tile(s.viewport_x_on_fullimage) - extra_tiles,
                   y_to_tile(s.viewport_y_on_fullimage) - extra_tiles)

\* lines 268-271: the viewport on the canvas
SetViewportOnCanvas(s) ==
    [s EXCEPT !.viewport_x = s.viewport_x_on_fullimage - tile_start_x(s.tile_xstart),
              !.viewport_y = s.viewport_y_on_fullimage - tile_start_y(s.tile_ystart)]

\* the tiles load_tile was called with during an operation that gave r: none
\* when it ended before _load_tiles
Fetched(r) == IF "fetched" \in DOMAIN r THEN r.fetched ELSE <<>>

\* lines 265-271: ld is what _load_tiles made of the canvas
LoadCanvas(s, ld) ==
    IF ld.raised /= ""
    THEN [self |-> [s EXCEPT !.pixels = ld.pixels], ret |-> ld.raised,
          fetched |-> ld.fetched]
    ELSE [self |-> SetViewportOnCanvas([s EXCEPT !.pixels = ld.pixels]),
          ret |-> "None", fetched |-> ld.fetched]

\* a variant that keeps the canvas of an engine that has one
LoadWindow_Reuse(s) == LoadCanvas(s, load_tiles(s, ~s.pixels.alloc, FALSE, Window(s)))

\* lines 265-271: s is the engine with its new tile window
LoadWindow(s) == LoadCanvas(s, load_tiles(s, TRUE, FALSE, Window(s)))

\* lines 240-271; num_tiles_across raises ZoomError for a zoom that has no
\* registered dimensions
LoadTiled(s) ==
    IF ~Registered(s.zoom) THEN [self |-> s, ret |-> "ZoomError"]
    ELSE LoadWindow(SetWindow(s))

\* load_image(centerx, centery); center is None or <<centerx, centery>>
load_image(s, center) ==
    IF s.viewport_width = 0 \/ s.viewport_height = 0
    THEN [self |-> s, ret |-> "None"]
    ELSE IF s.zoom /= FIT /\ ~Registered(s.zoom)
    THEN [self |-> s, ret |-> "ZoomError"]
    ELSE LoadTiled(SetTilesInCanvas(FitZoom(SetTopLeft(SetZoomedSize(s), center))))

\* the first clamp of scroll_to (lines 359-366) on one axis
ClampScroll(x, vsize, zsize) ==
    LET a == IF x + vsize >= zsize THEN zsize - vsize ELSE x
    IN  IF a < 0 THEN 0 ELSE a

\* a variant of the second clip without its lower bound
ClipAxis_NoLower(x, vsize, zsize) ==
    LET over == x + vsize > zsize
        cr == IF over THEN x + vsize - zsize ELSE 0
        a == IF over THEN zsize - vsize ELSE x
    IN  <<a, 0, cr>>

\* the second clip of scroll_to (lines 385-408) on one axis:
\* <<position, clip_left, clip_right>>
ClipAxis(x, vsize, zsize) ==
    LET over == x + vsize > zsize
        cr == IF over THEN x + vsize - zsize ELSE 0
        a == IF over THEN zsize - vsize ELSE x
    IN  IF a < 0 THEN <<0, -a, 0>> ELSE <<a, 0, cr>>

\* a variant that copies in the opposite direction
ShiftSlices_Reversed(px, ox, oy, nx, ny, copy_width, copy_height) ==
    [dr |-> PySlice(oy, oy + copy_height, px.h),
     dc |-> PySlice(ox, ox + copy_width, px.w),
     sr |-> PySlice(ny, ny + copy_height, px.h),
     sc |-> PySlice(nx, nx + copy_width, px.w)]

\* self._pixels[ny:ny+copy_height, nx:nx+copy_width]
\*     = self._pixels[oy:oy+copy_height, ox:ox+copy_width]
\* numpy copies as if the source were read before anything is written
ShiftSlices(px, ox, oy, nx, ny, copy_width, copy_height) ==
    [dr |-> PySlice(ny, ny + copy_height, px.h),
     dc |-> PySlice(nx, nx + copy_width, px.w),
     sr |-> PySlice(oy, oy + copy_height, px.h),
     sc |-> PySlice(ox, ox + copy_width, px.w)]

ShiftPixels(px, cp) ==
    [px EXCEPT !.d =
        [k \in 1..(px.h * px.w) |->
            LET r == (k - 1) \div px.w
                c == (k - 1) % px.w
            IN  IF /\ r >= cp.dr[1] /\ r < cp.dr[2]
                   /\ c >= cp.dc[1] /\ c < cp.dc[2]
                THEN At(px, SrcIndex(r, cp.dr, cp.sr), SrcIndex(c, cp.dc, cp.sc))
                ELSE px.d[k]]]

\* scroll_to, lines 374-408: the viewport moved to the clamped target;
\* cx and cy are the clips of the two axes
\* a variant that leaves the viewport where it was on the canvas
MoveViewport_TopLeftOnly(s, top_left_x, top_left_y, cx, cy) ==
    [s EXCEPT !.viewport_x_on_fullimage = cx[1],
              !.viewport_y_on_fullimage = cy[1]]

MoveViewport(s, top_left_x, top_left_y, cx, cy) ==
    [s EXCEPT !.viewport_x = @ - (s.viewport_x_on_fullimage - top_left_x),
              !.viewport_y = @ - (s.viewport_y_on_fullimage - top_left_y),
              !.viewport_x_on_fullimage = cx[1],
              !.viewport_y_on_fullimage = cy[1]]

\* lines 483-490: clip_left, clip_right, clip_top, clip_bottom applied to the
\* viewport on the canvas
ClipOnCanvas(s, cx, cy) ==
    [s EXCEPT !.viewport_x = IF cx[2] > 0 THEN @ + cx[2]
                             ELSE IF cx[3] > 0 THEN @ - cx[3] ELSE @,
              !.viewport_y = IF cy[2] > 0 THEN @ + cy[2]
                             ELSE IF cy[3] > 0 THEN @ - cy[3] ELSE @]

\* lines 477-492: ld is what _load_tiles made of the shifted canvas
LoadNewTiles(s, ld, cx, cy) ==
    IF ld.raised /= ""
    THEN [self |-> [s EXCEPT !.pixels = ld.pixels], ret |-> ld.raised,
          fetched |-> ld.fetched]
    ELSE [self |-> ClipOnCanvas([s EXCEPT !.pixels = ld.pixels], cx, cy),
          ret |-> "True", fetched |-> ld.fetched]

\* lines 477-481: s is the engine with the shifted canvas and the new
\* window, oldw the old window
LoadShifted(s, oldw, cx, cy) ==
    LoadNewTiles(s, load_tiles(s, FALSE, TRUE, oldw), cx, cy)

\* lines 465-481: the kept pixels are copied (numpy raises ValueError when
\* the shapes of the two slices differ), num_tiles_across raises ZoomError
\* when the zoom has no dimensions, the window becomes w, its new tiles
\* are loaded; s is the engine after lines 453-464, oldw the old window
ShiftAndLoad(s, oldw, w, cp, cx, cy) ==
    IF ~CopyFits(cp) THEN [self |-> s, ret |-> "ValueError"]
    ELSE IF ~Registered(s.zoom)
    THEN [self |-> [s EXCEPT !.pixels = ShiftPixels(s.pixels, cp)],
          ret |-> "ZoomError"]
    ELSE LoadShifted([s EXCEPT !.pixels = ShiftPixels(s.pixels, cp),
                               !.tile_xstart = w.tile_xstart,
                               !.tile_xend = w.tile_xend,
                               !.tile_ystart = w.tile_ystart,
                               !.tile_yend = w.tile_yend],
                     oldw, cx, cy)

\* lines 431-464: the tiles the window moved by on each side, the offsets of
\* the copy and the viewport on the shifted canvas
ShiftCanvas(s, w, right, bottom, left, top, cx, cy) ==
    ShiftAndLoad([s EXCEPT !.viewport_x = @ - tile_width * right + tile_width * left,
                           !.viewport_y = @ - tile_height * bottom + tile_height * top],
                 Window(s), w,
                 ShiftSlices(s.pixels,
                             tile_width * right, tile_height * bottom,
                             tile_width * left, tile_height * top,
                             s.canvas_width - tile_width * (left + right),
                             s.canvas_height - tile_height * (top + bottom)),
                 cx, cy)

\* lines 419-492: s is the engine with the viewport moved, w the tile window
\* of its new position
ScrollWindow(s, w, cx, cy) ==
    IF w = Window(s) THEN [self |-> s, ret |-> "False"]
    ELSE ShiftCanvas(s, w,
                     Max(0, w.tile_xstart - s.tile_xstart),
                     Max(0, w.tile_ystart - s.tile_ystart),
                     Max(0, s.tile_xend - w.tile_xend),
                     Max(0, s.tile_yend - w.tile_yend),
                     cx, cy)

\* lines 410-417
NewWindow(s) ==
    [tile_xstart |-> x_to_tile(s.viewport_x_on_fullimage) - extra_tiles,
     tile_xend |-> x_to_tile(s.viewport_x_on_fullimage) - extra_tiles
                       + s.tiles_across_in_canvas,
     tile_ystart |-> y_to_tile(s.viewport_y_on_fullimage) - extra_tiles,
     tile_yend |-> y_to_tile(s.viewport_y_on_fullimage) - extra_tiles
                       + s.tiles_down_in_canvas]

\* lines 410-492: s is the engine with the viewport moved
ScrollMoved(s, cx, cy) == ScrollWindow(s, NewWindow(s), cx, cy)

\* lines 368-492
ScrollClamped(s, top_left_x, top_left_y, cx, cy) ==
    IF /\ s.viewport_x_on_fullimage - top_left_x = 0
       /\ s.viewport_y_on_fullimage - top_left_y = 0
    THEN [self |-> s, ret |-> "False"]
    ELSE ScrollMoved(MoveViewport(s, top_left_x, top_left_y, cx, cy), cx, cy)

\* lines 359-408: the clamped target and the clip of each axis
ScrollTarget(s, top_left_x, top_left_y) ==
    ScrollClamped(s, top_left_x, top_left_y,
                  ClipAxis(top_left_x, s.viewport_width, s.zoomed_image_width[1]),
                  ClipAxis(top_left_y, s.viewport_height, s.zoomed_image_height[1]))

\* scroll_to(top_left_x, top_left_y)
scroll_to(s, x, y) ==
    ScrollTarget(s, ClampScroll(x, s.viewport_width, s.zoomed_image_width[1]),
                    ClampScroll(y, s.viewport_height, s.zoomed_image_height[1]))

\* a variant that moves the offset of the viewport in the canvas
scroll_OnCanvas(s, dx, dy) ==
    scroll_to(s, s.viewport_x - dx, s.viewport_y - dy)

\* scroll(dx, dy)
scroll(s, dx, dy) ==
    scroll_to(s, s.viewport_x_on_fullimage - dx, s.viewport_y_on_fullimage - dy)

\* centerx << n, centerx >> n
ShiftLeft(v, n) == v * Pow2(n)

\* a variant that rounds up
ShiftRight_RoundUp(v, n) == (v + Pow2(n) - 1) \div Pow2(n)

ShiftRight(v, n) == v \div Pow2(n)

\* a variant that does not rescale the focus to the new zoom
ZoomCentre_NoRescale(s, z, centerx, centery) ==
    <<centerx + s.viewport_x_on_fullimage, centery + s.viewport_y_on_fullimage>>

\* zoom_to, lines 592-602: the focus, given on the viewport, on the full
\* image at the new zoom
ZoomCentre(s, z, centerx, centery) ==
    IF z - s.zoom > 0
    THEN <<ShiftLeft(centerx + s.viewport_x_on_fullimage, z - s.zoom),
           ShiftLeft(centery + s.viewport_y_on_fullimage, z - s.zoom)>>
    ELSE <<ShiftRight(centerx + s.viewport_x_on_fullimage, -(z - s.zoom)),
           ShiftRight(centery + s.viewport_y_on_fullimage, -(z - s.zoom))>>

\* lines 604-606: ld is what load_image did
ZoomLoaded(ld) ==
    [self |-> ld.self, ret |-> IF ld.ret = "None" THEN "True" ELSE ld.ret,
     fetched |-> Fetched(ld)]

\* a variant that keeps the pixels of the previous zoom
ZoomReload_KeepCanvas(s, z, centerx, centery) ==
    [self |-> [load_image([s EXCEPT !.zoom = z],
                          ZoomCentre(s, z, centerx, centery)).self
                  EXCEPT !.pixels = s.pixels],
     ret |-> "True"]

\* lines 604-606
ZoomReload(s, z, centerx, centery) ==
    ZoomLoaded(load_image([s EXCEPT !.zoom = z], ZoomCentre(s, z, centerx, centery)))

\* a variant that reloads when the target is the current zoom
zoom_to_Reload(s, z, centerx, centery) ==
    IF z < min_zoom \/ z > max_zoom
    THEN [self |-> s, ret |-> "False"]
    ELSE ZoomReload(s, z, centerx, centery)

\* zoom_to(zoom, centerx, centery)
zoom_to(s, z, centerx, centery) ==
    IF z < min_zoom \/ z > max_zoom \/ z = s.zoom
    THEN [self |-> s, ret |-> "False"]
    ELSE ZoomReload(s, z, centerx, centery)

\* a variant that fits the image to the new viewport
resize_Fit(s, w, h) ==
    load_image([s EXCEPT !.viewport_width = w, !.viewport_height = h,
                         !.zoom = FIT], None)

\* BigImageComponent.resizeEvent: viewport_size = (w, h); load_image()
resize(s, w, h) ==
    load_image([s EXCEPT !.viewport_width = w, !.viewport_height = h], None)

\* img.shape[2] and img.dtype of a tile: cv2.imread gives a DeepZoom tile as
\* 3 channels of uint8, getTile gives the bands of the source as they are.
\* The canvas is np.zeros((canvas_height, canvas_width, channel), img.dtype):
\* it has three axes, and the channels and dtype of the tiles.
TileChannels == IF image.kind = "DZ" THEN 3 ELSE image.bands

TileDtype == IF image.kind = "DZ" THEN "uint8" ELSE image.dtype

\* get_rect(): (x, y, width, height) of the QRect
get_rect(s) ==
    <<s.viewport_x, s.viewport_y,
      Min(s.viewport_width, s.canvas_width),
      Min(s.viewport_height, s.canvas_height)>>

\* the QImage over self._pixels.data: shape[1], shape[0] and the format
QImageOf(px, rgb, bgr) ==
    [width |-> px.w, height |-> px.h,
     format |-> IF image.kind = "LI" THEN rgb ELSE bgr]

\* to_qimage(): (qim, qrect), or NotImplementedException
to_qimage(s) ==
    IF ~s.pixels.alloc
    THEN Returned([image |-> [width |-> 0, height |-> 0, format |-> "Invalid"],
                   rect |-> <<0, 0, 0, 0>>])
    ELSE IF TileDtype = "uint8" /\ TileChannels = 3
    THEN Returned([image |-> QImageOf(s.pixels, "RGB888", "BGR888"),
                   rect |-> get_rect(s)])
    ELSE IF TileDtype = "uint8" /\ TileChannels = 4
    THEN Returned([image |-> QImageOf(s.pixels, "ARGB32", "BGR32"),
                   rect |-> get_rect(s)])
    ELSE Raised("NotImplementedException")

\* ------------------------------------------------------------------------
\* The images and the inputs of the operations
\* ------------------------------------------------------------------------
\* a DeepZoom image with overlap: a wide strip, two zoom directories
StripImage ==
    [kind |-> "DZ", width |-> StripWidth, height |-> 1,
     tile_width |-> 2, tile_height |-> 2, overlap |-> 1,
     dirs |-> {0, 1}, levels |-> 2]

\* a large_image pyramid without overlap, three levels, tiles 3 x 2; its
\* tiles are arrays of 3 bands of uint8
SquareImage ==
    [kind |-> "LI", width |-> SquareSide, height |-> SquareSide,
     tile_width |-> 3, tile_height |-> 2, overlap |-> 0,
     dirs |-> {0, 1, 2}, levels |-> 3, bands |-> 3, dtype |-> "uint8"]

Images == {StripImage, SquareImage}

\* viewport sizes (width, height); they are positive: the widget has a
\* minimum size (MIN_WIDTH, MIN_HEIGHT) and load_image returns at once for a
\* width or height of 0
Sizes == {<<2, 1>>, <<2, 4>>}

\* (zoom, viewport_on_fullimage, viewport_size) of the first load
Opens == {<<FIT, <<0, 0>>, <<2, 4>>>>, <<max_zoom, <<4, 4>>, <<2, 4>>>>,
          <<max_zoom, <<0, 0>>, <<2, 1>>>>, <<FIT, <<4, 4>>, <<2, 1>>>>}

ScrollTargets == {<<0, 0>>, <<5, 1>>, <<StripWidth - 2, 0>>, <<-1, 7>>}

\* (dx, dy) of the scroll calls, among them one tile width or one tile height
\* either way
Deltas == {<<1, 0>>, <<-1, 0>>, <<0, 1>>, <<0, -1>>, <<3, 2>>, <<-3, -2>>,
           <<tile_width, 0>>, <<-tile_width, 0>>,
           <<0, tile_height>>, <<0, -tile_height>>}

\* (zoom, focus) of the zoom_to calls
ZoomCalls == {<<z, <<1, 1>>>> : z \in (min_zoom - 1)..(max_zoom + 1)}
                 \cup {<<min_zoom, <<0, 0>>>>}

\* (zoom, centre) of the load_image calls
Loads == {<<FIT, None>>, <<FIT, <<20, 20>>>>, <<max_zoom + 1, <<3, 1>>>>,
          <<min_zoom - 1, None>>, <<max_zoom, <<20, 20>>>>}

\* ------------------------------------------------------------------------
\* Operations
\* ------------------------------------------------------------------------
Loaded == loaded_image.pixels.alloc

\* an operation on the opened engine is taken while the run is short enough
Step == /\ Loaded
        /\ steps < MaxSteps
        /\ steps' = steps + 1
        /\ old' = [loaded_image EXCEPT !.pixels = NoPixels]

Init ==
    /\ image \in Images
    /\ loaded_image = NewLoadedImage
    /\ result = "None"
    /\ steps = 0
    /\ op = "init"
    /\ args = <<>>
    /\ old = NewLoadedImage
    /\ fetched = <<>>

\* BigImageComponent.load_image / the tests' _create_image: a new
\* LoadedImage, viewport_on_fullimage = pos, zoom = z, viewport_size = size,
\* load_image().  The model follows one engine: it is opened while nothing
\* is loaded (engines share no state, so a later engine behaves the same).
Open(z, pos, size) ==
    LET s0 == [NewLoadedImage EXCEPT !.viewport_x_on_fullimage = pos[1],
                                     !.viewport_y_on_fullimage = pos[2]]
        s1 == set_zoom(s0, z)
        s2 == [s1 EXCEPT !.viewport_width = size[1], !.viewport_height = size[2]]
        r == load_image(s2, None)
    IN  /\ ~Loaded
        /\ steps' = 0
        /\ op' = "open"
        /\ args' = <<z, pos, size>>
        /\ old' = NewLoadedImage
        /\ \E done \in {r} :
               /\ loaded_image' = done.self
               /\ result' = done.ret
               /\ fetched' = Fetched(done)
        /\ UNCHANGED image

\* zoom = z; load_image(centerx, centery) on the current engine
LoadImage(z, center) ==
    LET r == load_image(set_zoom(loaded_image, z), center)
    IN  /\ Step
        /\ op' = "load_image"
        /\ args' = <<z, center>>
        /\ \E done \in {r} :
               /\ loaded_image' = done.self
               /\ result' = done.ret
               /\ fetched' = Fetched(done)
        /\ UNCHANGED image

ScrollTo(x, y) ==
    LET r == scroll_to(loaded_image, x, y)
    IN  /\ Step
        /\ op' = "scroll_to"
        /\ args' = <<x, y>>
        /\ \E done \in {r} :
               /\ loaded_image' = done.self
               /\ result' = done.ret
               /\ fetched' = Fetched(done)
        /\ UNCHANGED image

Scroll(dx, dy) ==
    LET r == scroll(loaded_image, dx, dy)
    IN  /\ Step
        /\ op' = "scroll"
        /\ args' = <<dx, dy>>
        /\ \E done \in {r} :
               /\ loaded_image' = done.self
               /\ result' = done.ret
               /\ fetched' = Fetched(done)
        /\ UNCHANGED image

ZoomTo(z, fx, fy) ==
    LET r == zoom_to(loaded_image, z, fx, fy)
    IN  /\ Step
        /\ op' = "zoom_to"
        /\ args' = <<z, fx, fy>>
        /\ \E done \in {r} :
               /\ loaded_image' = done.self
               /\ result' = done.ret
               /\ fetched' = Fetched(done)
        /\ UNCHANGED image

Resize(w, h) ==
    LET r == resize(loaded_image, w, h)
    IN  /\ Step
        /\ op' = "resize"
        /\ args' = <<w, h>>
        /\ \E done \in {r} :
               /\ loaded_image' = done.self
               /\ result' = done.ret
               /\ fetched' = Fetched(done)
        /\ UNCHANGED image

\* a call that reads the opened engine and changes none of its fields
Read == /\ Loaded
        /\ old' = [loaded_image EXCEPT !.pixels = NoPixels]
        /\ fetched' = <<>>
        /\ UNCHANGED <<image, loaded_image, steps>>

ToQImage ==
    /\ Read
    /\ op' = "to_qimage"
    /\ args' = <<>>
    /\ result' = to_qimage(loaded_image)

GetRect ==
    /\ Read
    /\ op' = "get_rect"
    /\ args' = <<>>
    /\ result' = Returned(get_rect(loaded_image))

Next ==
    \/ \E o \in Opens : Open(o[1], o[2], o[3])
    \/ \E l \in Loads : LoadImage(l[1], l[2])
    \/ \E t \in ScrollTargets : ScrollTo(t[1], t[2])
    \/ \E d \in Deltas : Scroll(d[1], d[2])
    \/ \E c \in ZoomCalls : ZoomTo(c[1], c[2][1], c[2][2])
    \/ \E size \in Sizes : Resize(size[1], size[2])
    \/ ToQImage
    \/ GetRect

Spec == Init /\ [][Next]_vars

\* ------------------------------------------------------------------------
\* The engine on images of every tile format, drawn
\* ------------------------------------------------------------------------
\* the strip image, and the square image with tiles of 1 to 5 bands of
\* uint8 or uint16
ViewImages ==
    {StripImage} \cup {[SquareImage EXCEPT !.bands = b, !.dtype = d] :
                           b \in 1..5, d \in {"uint8", "uint16"}}

ViewInit ==
    /\ image \in ViewImages
    /\ loaded_image = NewLoadedImage
    /\ result = "None"
    /\ steps = 0
    /\ op = "init"
    /\ args = <<>>
    /\ old = NewLoadedImage
    /\ fetched = <<>>

ViewNext ==
    \/ \E o \in Opens : Open(o[1], o[2], o[3])
    \/ ToQImage
    \/ GetRect

ViewSpec == ViewInit /\ [][ViewNext]_vars

\* ------------------------------------------------------------------------
\* The image alone: one call of a method of BigImage on an opened image
\* ------------------------------------------------------------------------
\* a DeepZoom image whose zoom directories start at 1
HighStripImage ==
    [kind |-> "DZ", width |-> StripWidth, height |-> 3,
     tile_width |-> 2, tile_height |-> 2, overlap |-> 1,
     dirs |-> {1, 2}, levels |-> 2]

\* a DeepZoom image whose overlap is wider than its last tile: 7 = 3 + 3 + 1
WideOverlapImage ==
    [kind |-> "DZ", width |-> 7, height |-> 4,
     tile_width |-> 3, tile_height |-> 3, overlap |-> 2,
     dirs |-> {0, 1}, levels |-> 2]

\* a large_image pyramid of one level whose tiles are wider and higher than
\* 10000 pixels
HugeTileImage ==
    [kind |-> "LI", width |-> 2 * HugeTile + 1, height |-> 2 * HugeTile + 1,
     tile_width |-> HugeTile, tile_height |-> HugeTile, overlap |-> 0,
     dirs |-> {0}, levels |-> 1, bands |-> 3, dtype |-> "uint8"]

PyramidImages == Images \cup {HighStripImage, WideOverlapImage, HugeTileImage}

\* .dzi files: the file of the strip image (its Size tag gives the
\* dimensions) with attributes and tags missing or not numbers, with and
\* without the directory of its tiles
DZFiles ==
    {[kind |-> "DZ", image_tag |-> it, Width |-> w, Height |-> h,
      TileSize |-> t, Overlap |-> o, Format |-> fm,
      size_tag |-> st, SizeWidth |-> sw, SizeHeight |-> Number(1),
      files_dir |-> fd, dirs |-> {0, 1}] :
        it \in BOOLEAN, fm \in BOOLEAN, st \in BOOLEAN, fd \in BOOLEAN,
        w \in {Absent, Number(7), NotANumber},
        h \in {Absent, Number(5), NotANumber},
        t \in {Absent, Number(2), NotANumber},
        o \in {Absent, Number(1), NotANumber},
        sw \in {Number(StripWidth), NotANumber}}

\* metadata of large_image: those of the square image with keys missing
LIFiles ==
    {[kind |-> "LI", levels |-> l, tileWidth |-> tw, tileHeight |-> th,
      sizeX |-> sx, sizeY |-> sy] :
        l \in {Absent, Number(3)},
        tw \in {Absent, Number(3)}, th \in {Absent, Number(2)},
        sx \in {Absent, Number(SquareSide)}, sy \in {Absent, Number(SquareSide)}}

Files == DZFiles \cup LIFiles

\* viewports of fit_to_viewport
FitWidths == 0..(StripWidth + 1)

FitHeights == 0..(SquareSide + 1)

\* shapes (height, width) of the array behind a tile; None is a file
\* cv2.imread cannot read
StoredShapes ==
    ({h \in 1..(tile_height + 2) : h <= 2 \/ h >= tile_height - 2}
         \X {w \in 1..(tile_width + 2) : w <= 2 \/ w >= tile_width - 2})
        \cup (IF image.kind = "DZ" THEN {None} ELSE {})

\* tiles of the overlap and tile extent calls: those of the full image
TilesAcross == 0..(num_tiles_across(max_zoom) - 1)

TilesDown == 0..(num_tiles_down(max_zoom) - 1)

\* coordinates of x_to_tile and y_to_tile: the first ones, and those on
\* either side of the first two tile boundaries
XCoords == (0..(StripWidth + 1))
               \cup {k * tile_width - e : k \in 1..2, e \in 0..1}

YCoords == (0..(SquareSide + 1))
               \cup {k * tile_height - e : k \in 1..2, e \in 0..1}

ImageInit ==
    /\ image \in PyramidImages
    /\ loaded_image = NewLoadedImage
    /\ result = Returned(None)
    /\ steps = 0
    /\ op = "init"
    /\ args = <<>>
    /\ old = NewLoadedImage
    /\ fetched = <<>>

\* one call on the opened image
OneCall == /\ op = "init"
           /\ UNCHANGED <<image, loaded_image, steps, old, fetched>>

FitToViewport(vw, vh) ==
    /\ OneCall
    /\ op' = "fit_to_viewport"
    /\ args' = <<vw, vh>>
    /\ result' = Returned(fit_to_viewport(vw, vh))

\* load_tile of a tile of the image at a zoom that has dimensions
LoadTile(tilex, tiley, z, stored) ==
    /\ OneCall
    /\ Registered(z)
    /\ InImage(<<tilex, tiley>>, z)
    /\ op' = "load_tile"
    /\ args' = <<tilex, tiley, z, stored>>
    /\ result' = load_tile_shape(tilex, tiley, z, stored)

ImageWidthForZoom(z) ==
    /\ OneCall
    /\ op' = "image_width_for_zoom"
    /\ args' = <<z>>
    /\ result' = image_width_for_zoom(z)

ImageHeightForZoom(z) ==
    /\ OneCall
    /\ op' = "image_height_for_zoom"
    /\ args' = <<z>>
    /\ result' = image_height_for_zoom(z)

\* a call that returns the value v
Call(name, a, v) ==
    /\ OneCall
    /\ op' = name
    /\ args' = a
    /\ result' = Returned(v)

LeftOverlap(tile) == Call("left_overlap", <<tile>>, left_overlap(tile))

TopOverlap(tile) == Call("top_overlap", <<tile>>, top_overlap(tile))

\* the zoom of these calls has dimensions
RightOverlap(tile, z) ==
    /\ Registered(z)
    /\ Call("right_overlap", <<tile, z>>, right_overlap(tile, z))

BottomOverlap(tile, z) ==
    /\ Registered(z)
    /\ Call("bottom_overlap", <<tile, z>>, bottom_overlap(tile, z))

TileStartX(tile) == Call("tile_start_x", <<tile>>, tile_start_x(tile))

TileStartY(tile) == Call("tile_start_y", <<tile>>, tile_start_y(tile))

\* the tile is one of the image at that zoom
TileEndXPlusOne(tile, z) ==
    /\ Registered(z)
    /\ tile < num_tiles_across(z)
    /\ Call("tile_end_x_plus_one", <<tile, z>>, tile_end_x_plus_one(tile, z))

TileEndYPlusOne(tile, z) ==
    /\ Registered(z)
    /\ tile < num_tiles_down(z)
    /\ Call("tile_end_y_plus_one", <<tile, z>>, tile_end_y_plus_one(tile, z))

XToTile(x) == Call("x_to_tile", <<x>>, x_to_tile(x))

YToTile(y) == Call("y_to_tile", <<y>>, y_to_tile(y))

\* open of a file on a new object
OpenFile(f) ==
    /\ OneCall
    /\ op' = "open"
    /\ args' = <<f>>
    /\ result' = open(f)

ImageNext ==
    \/ \E vw \in FitWidths, vh \in FitHeights : FitToViewport(vw, vh)
    \/ \E z \in 0..max_zoom, tilex \in 0..(num_tiles_across(max_zoom) - 1),
          tiley \in 0..(num_tiles_down(max_zoom) - 1), stored \in StoredShapes :
           LoadTile(tilex, tiley, z, stored)
    \/ \E z \in (-1)..(max_zoom + 1) : ImageWidthForZoom(z)
    \/ \E z \in (-1)..(max_zoom + 1) : ImageHeightForZoom(z)
    \/ \E f \in Files : OpenFile(f)
    \/ \E tile \in TilesAcross : LeftOverlap(tile)
    \/ \E tile \in TilesDown : TopOverlap(tile)
    \/ \E tile \in TilesAcross, z \in 0..max_zoom : RightOverlap(tile, z)
    \/ \E tile \in TilesDown, z \in 0..max_zoom : BottomOverlap(tile, z)
    \/ \E tile \in TilesAcross : TileStartX(tile)
    \/ \E tile \in TilesDown : TileStartY(tile)
    \/ \E tile \in TilesAcross, z \in 0..max_zoom : TileEndXPlusOne(tile, z)
    \/ \E tile \in TilesDown, z \in 0..max_zoom : TileEndYPlusOne(tile, z)
    \/ \E x \in XCoords : XToTile(x)
    \/ \E y \in YCoords : YToTile(y)

ImageSpec == ImageInit /\ [][ImageNext]_vars

\* ------------------------------------------------------------------------
\* The engine on every pyramid, the one whose zoom directories start at 1
\* among them
\* ------------------------------------------------------------------------
PyramidInit ==
    /\ image \in PyramidImages \ {HugeTileImage}
    /\ loaded_image = NewLoadedImage
    /\ result = "None"
    /\ steps = 0
    /\ op = "init"
    /\ args = <<>>
    /\ old = NewLoadedImage
    /\ fetched = <<>>

PyramidSpec == PyramidInit /\ [][Next]_vars

\* ------------------------------------------------------------------------
\* Zooming about the centre of the viewport, as test_03_zoom does
\* ------------------------------------------------------------------------
\* first loads at a zoom that has a lower one, at every top-left of a grid
ZoomOpens ==
    {<<z, <<x, y>>, size>> : z \in (min_zoom + 1)..max_zoom,
                             x \in 0..(SquareSide - 2), y \in 0..5,
                             size \in Sizes}

\* centerx = int(viewport_size[0] / 2); centery = int(viewport_size[1] / 2);
\* zoom_to(z, centerx, centery)
ZoomAtCentre(z) ==
    ZoomTo(z, loaded_image.viewport_width \div 2,
              loaded_image.viewport_height \div 2)

ZoomNext ==
    \/ \E o \in ZoomOpens : Open(o[1], o[2], o[3])
    \/ \E z \in min_zoom..max_zoom : ZoomAtCentre(z)

ZoomSpec == Init /\ [][ZoomNext]_vars

\* ------------------------------------------------------------------------
\* Vocabulary of the properties
\* ------------------------------------------------------------------------
ScrollOp == op \in {"scroll", "scroll_to"}

\* the top-left the last scroll asked for
Requested ==
    IF op = "scroll"
    THEN <<old.viewport_x_on_fullimage - args[1], old.viewport_y_on_fullimage - args[2]>>
    ELSE args

ZoomedWidth == image_width_for_zoom(loaded_image.zoom).value

ZoomedHeight == image_height_for_zoom(loaded_image.zoom).value

\* t clipped into [0, zsize - vsize]; 0 when the image is smaller
Clipped(t, vsize, zsize) ==
    IF zsize < vsize \/ t < 0 THEN 0
    ELSE IF t > zsize - vsize THEN zsize - vsize
    ELSE t

WindowTiles(w) ==
    (w.tile_xstart..(w.tile_xend - 1)) \X (w.tile_ystart..(w.tile_yend - 1))

\* the tile window of a viewport of size (vw, vh) whose top-left is (x, y)
WindowFor(x, y, vw, vh) ==
    LET xs == (x \div tile_width) - extra_tiles
        ys == (y \div tile_height) - extra_tiles
    IN  [tile_xstart |-> xs,
         tile_xend |-> xs + CeilDiv(vw, tile_width) + 2 * extra_tiles,
         tile_ystart |-> ys,
         tile_yend |-> ys + CeilDiv(vh, tile_height) + 2 * extra_tiles]

TrimmedWidth(tx, z) ==
    tile_width_at_zoom(tx, z) - left_overlap(tx) - right_overlap(tx, z)

TrimmedHeight(ty, z) ==
    tile_height_at_zoom(ty, z) - top_overlap(ty) - bottom_overlap(ty, z)

\* the slot of tile t in the canvas of s holds the pixels of the tile, its
\* overlap borders trimmed
SlotHoldsTile(s, t) ==
    \A i \in 0..(TrimmedWidth(t[1], s.zoom) - 1),
       j \in 0..(TrimmedHeight(t[2], s.zoom) - 1) :
        At(s.pixels, SlotY(s, t[2]) + j, SlotX(s, t[1]) + i)
            = SourcePixel(s.zoom,
                          tile_start_x(t[1]) + left_overlap(t[1]) + i,
                          tile_start_y(t[2]) + top_overlap(t[2]) + j)

\* the tiles the last scroll made visible
NewTiles ==
    {t \in WindowTiles(Window(loaded_image)) :
        InImage(t, loaded_image.zoom) /\ ~InWindow(t, Window(old))}

\* ------------------------------------------------------------------------
\* C1: whenever scroll_to returns True, every tile that is in the image, in
\* the new tile window and was not in the old one has its canvas slot equal
\* to the tile's source pixels with the overlap borders trimmed.
\* ------------------------------------------------------------------------
C1_NewTilesLoaded ==
    (ScrollOp /\ result = "True") => \A t \in NewTiles : SlotHoldsTile(loaded_image, t)

C1_Witness ==
    /\ ScrollOp /\ result = "True"
    /\ image.kind = "DZ"
    /\ \E t \in NewTiles : t[1] > 0 /\ SlotHoldsTile(loaded_image, t)

\* ------------------------------------------------------------------------
\* C2: whenever scroll_to returns True, the slot of every tile that is in
\* the old and in the new tile window holds, in the new canvas layout, the
\* pixels it held before the scroll.
\* ------------------------------------------------------------------------
SlotKept(s, n, t) ==
    \A i \in 0..(tile_width - 1), j \in 0..(tile_height - 1) :
        At(n.pixels, SlotY(n, t[2]) + j, SlotX(n, t[1]) + i)
            = At(s.pixels, SlotY(s, t[2]) + j, SlotX(s, t[1]) + i)

C2_RetainedUnchanged ==
    [][(op' \in {"scroll", "scroll_to"} /\ result' = "True")
          => \A t \in WindowTiles(Window(loaded_image))
                        \cap WindowTiles(Window(loaded_image')) :
                 SlotKept(loaded_image, loaded_image', t)]_vars

\* a diagonal shift by one tile each way: the retained block is larger than
\* the shift, so source and destination of the copy overlap
C2_Witness ==
    /\ ScrollOp /\ result = "True"
    /\ loaded_image.tile_xstart - old.tile_xstart \in {-1, 1}
    /\ loaded_image.tile_ystart - old.tile_ystart \in {-1, 1}
    /\ \E t \in WindowTiles(Window(loaded_image)) \cap WindowTiles(Window(old)) :
           InImage(t, loaded_image.zoom) /\ SlotHoldsTile(loaded_image, t)

\* ------------------------------------------------------------------------
\* C3: scroll_to returns False if and only if the tile window computed from
\* the clamped target equals the current tile window, and returns True
\* exactly when the tile window changes.
\* ------------------------------------------------------------------------
ClippedTarget ==
    <<Clipped(Requested[1], old.viewport_width, ZoomedWidth),
      Clipped(Requested[2], old.viewport_height, ZoomedHeight)>>

TargetWindow ==
    WindowFor(ClippedTarget[1], ClippedTarget[2],
              old.viewport_width, old.viewport_height)

C3_FalseIffWindowUnchanged ==
    ScrollOp => /\ result = "False" <=> TargetWindow = Window(old)
                /\ result = "True" <=> TargetWindow /= Window(old)

\* ------------------------------------------------------------------------
\* C4: after scroll or scroll_to the viewport top-left on the full image is
\* the requested target clipped on each axis into
\* [0, zoomedDimension - viewportDimension], 0 where the image is smaller
\* than the viewport.
\* ------------------------------------------------------------------------
C4_ScrollClipsTarget ==
    ScrollOp =>
        /\ loaded_image.viewport_x_on_fullimage
               = Clipped(Requested[1], loaded_image.viewport_width, ZoomedWidth)
        /\ loaded_image.viewport_y_on_fullimage
               = Clipped(Requested[2], loaded_image.viewport_height, ZoomedHeight)

C4_Witness ==
    /\ ScrollOp
    /\ ZoomedWidth > loaded_image.viewport_width
    /\ Requested[1] > ZoomedWidth - loaded_image.viewport_width
    /\ Requested[2] < 0
    /\ loaded_image.viewport_x_on_fullimage = ZoomedWidth - loaded_image.viewport_width
    /\ loaded_image.viewport_y_on_fullimage = 0

\* ------------------------------------------------------------------------
\* C5: from a position that is not at an edge, with neither the intermediate
\* nor the final position clamped, scroll(dx, dy) followed by
\* scroll(-dx, -dy) restores the viewport top-left on the full image.
\* ------------------------------------------------------------------------
Unclamped(x, y) ==
    /\ 0 <= x /\ x + loaded_image.viewport_width <= ZoomedWidth
    /\ 0 <= y /\ y + loaded_image.viewport_height <= ZoomedHeight

\* the last operation was scroll(args) from an unclamped position to an
\* unclamped position
UnclampedScroll ==
    /\ op = "scroll"
    /\ Unclamped(old.viewport_x_on_fullimage, old.viewport_y_on_fullimage)
    /\ Unclamped(old.viewport_x_on_fullimage - args[1],
                 old.viewport_y_on_fullimage - args[2])

C5_ScrollRoundTrip ==
    [][(UnclampedScroll /\ op' = "scroll" /\ args' = <<-args[1], -args[2]>>)
          => /\ loaded_image'.viewport_x_on_fullimage = old.viewport_x_on_fullimage
             /\ loaded_image'.viewport_y_on_fullimage = old.viewport_y_on_fullimage]_vars

\* a scroll across a tile boundary whose inverse leads back
C5_Witness ==
    /\ UnclampedScroll /\ result = "True"
    /\ args[1] /= 0 /\ args[2] /= 0
    /\ LET back == scroll(loaded_image, -args[1], -args[2])
       IN  /\ back.ret = "True"
           /\ back.self.viewport_x_on_fullimage = old.viewport_x_on_fullimage
           /\ back.self.viewport_y_on_fullimage = old.viewport_y_on_fullimage

\* ------------------------------------------------------------------------
\* C6: zoom_to returns False and leaves the whole engine state unchanged
\* when the target zoom is below min_zoom, above max_zoom or equal to the
\* current zoom.
\* ------------------------------------------------------------------------
C6_ZoomToRejects ==
    [][(op' = "zoom_to" /\ (\/ args'[1] < min_zoom
                            \/ args'[1] > max_zoom
                            \/ args'[1] = loaded_image.zoom))
          => /\ result' = "False"
             /\ loaded_image' = loaded_image]_vars

C6_Witness ==
    /\ op = "zoom_to" /\ result = "False"
    /\ args[1] = old.zoom
    /\ args[1] \in min_zoom..max_zoom
    /\ [loaded_image EXCEPT !.pixels = NoPixels] = old

\* ------------------------------------------------------------------------
\* C7: a resize (setting viewport_size, then load_image) never changes the
\* zoom.
\* ------------------------------------------------------------------------
C7_ResizeKeepsZoom ==
    op = "resize" => loaded_image.zoom = old.zoom

C7_Witness ==
    /\ op = "resize"
    /\ args /= <<old.viewport_width, old.viewport_height>>
    /\ loaded_image.viewport_width = args[1]
    /\ loaded_image.viewport_height = args[2]
    /\ loaded_image.zoom = old.zoom
    /\ old.zoom < max_zoom

\* ------------------------------------------------------------------------
\* C8: in every Loaded state the viewport lies inside the canvas:
\* 0 <= viewport_x, viewport_x + viewport_width <= canvas_width, and the
\* same on the y axis.
\* ------------------------------------------------------------------------
C8_ViewportInsideCanvas ==
    Loaded =>
        /\ 0 <= loaded_image.viewport_x
        /\ loaded_image.viewport_x + loaded_image.viewport_width
               <= loaded_image.canvas_width
        /\ 0 <= loaded_image.viewport_y
        /\ loaded_image.viewport_y + loaded_image.viewport_height
               <= loaded_image.canvas_height

\* ------------------------------------------------------------------------
\* C9: in every Loaded state reached by load_image, scroll_to, zoom_to and
\* resize, the viewport top-left on the full image satisfies 0 <= x and
\* x + viewport_width <= zoomed width, or x = 0 when the image is narrower
\* than the viewport, and the same on the y axis.
\* ------------------------------------------------------------------------
ClampedOnAxis(x, vsize, zsize) ==
    IF zsize < vsize THEN x = 0 ELSE 0 <= x /\ x + vsize <= zsize

C9_ViewportClamped ==
    Loaded =>
        /\ ClampedOnAxis(loaded_image.viewport_x_on_fullimage,
                         loaded_image.viewport_width, ZoomedWidth)
        /\ ClampedOnAxis(loaded_image.viewport_y_on_fullimage,
                         loaded_image.viewport_height, ZoomedHeight)

\* ------------------------------------------------------------------------
\* C10: the canvas buffer has exactly
\* (ceil(viewport_width / tile_width) + 2 * extra_tiles) * tile_width
\* columns and
\* (ceil(viewport_height / tile_height) + 2 * extra_tiles) * tile_height
\* rows.
\* ------------------------------------------------------------------------
C10_CanvasSize ==
    Loaded =>
        /\ loaded_image.pixels.w
               = (CeilDiv(loaded_image.viewport_width, tile_width)
                      + 2 * extra_tiles) * tile_width
        /\ loaded_image.pixels.h
               = (CeilDiv(loaded_image.viewport_height, tile_height)
                      + 2 * extra_tiles) * tile_height
        /\ Len(loaded_image.pixels.d)
               = loaded_image.pixels.w * loaded_image.pixels.h

\* the viewport has grown by a tile row and the canvas has followed
C10_Witness ==
    /\ Loaded /\ op = "resize"
    /\ CeilDiv(args[2], tile_height) > CeilDiv(old.viewport_height, tile_height)
    /\ loaded_image.pixels.h > old.canvas_height
    /\ loaded_image.pixels.h = loaded_image.canvas_height
    /\ loaded_image.pixels.w = loaded_image.canvas_width

\* ------------------------------------------------------------------------
\* Vocabulary of the canvas content
\* ------------------------------------------------------------------------
\* the last operation ran load_image to its end
AfterLoadImage ==
    \/ op \in {"open", "load_image", "resize"} /\ result = "None"
    \/ op = "zoom_to" /\ result = "True"

\* every pixel of the slot of tile t is background
SlotZero(s, t) ==
    \A i \in 0..(tile_width - 1), j \in 0..(tile_height - 1) :
        At(s.pixels, SlotY(s, t[2]) + j, SlotX(s, t[1]) + i) = 0

\* the slot of tile t is what a load into a new buffer makes of it: the
\* trimmed tile and background around it for a tile of the image, background
\* for any other tile
SlotAsLoaded(s, t) ==
    \A i \in 0..(tile_width - 1), j \in 0..(tile_height - 1) :
        At(s.pixels, SlotY(s, t[2]) + j, SlotX(s, t[1]) + i)
            = IF /\ InImage(t, s.zoom)
                 /\ i < TrimmedWidth(t[1], s.zoom)
                 /\ j < TrimmedHeight(t[2], s.zoom)
              THEN SourcePixel(s.zoom,
                               tile_start_x(t[1]) + left_overlap(t[1]) + i,
                               tile_start_y(t[2]) + top_overlap(t[2]) + j)
              ELSE 0

\* ------------------------------------------------------------------------
\* C11: after load_image the canvas is a newly allocated buffer: the slot of
\* every tile of the tile window that is in the image holds the tile with
\* its overlap borders trimmed, and the slot of every tile of the window
\* that is outside the image is zero-filled.
\* ------------------------------------------------------------------------
C11_LoadFillsCanvas ==
    AfterLoadImage =>
        /\ Loaded
        /\ \A t \in WindowTiles(Window(loaded_image)) :
               SlotAsLoaded(loaded_image, t)

\* ------------------------------------------------------------------------
\* C12: in every Loaded state, the slot of every tile of the tile window
\* that is outside the image's tile range holds background pixels only.
\* ------------------------------------------------------------------------
C12_OutOfRangeIsBackground ==
    Loaded =>
        \A t \in WindowTiles(Window(loaded_image)) :
            ~InImage(t, loaded_image.zoom) => SlotZero(loaded_image, t)

\* ------------------------------------------------------------------------
\* C13: a scroll by exactly one tile width or one tile height, from the
\* state after the load, moves the tile window by one tile, so that every
\* populated tile is one slot further in the opposite direction, and the
\* scroll back by the same amount restores the tile window and the content
\* of every canvas slot to what the load made them.
\* ------------------------------------------------------------------------
\* the last operation was the first scroll after the load, by one tile on
\* one axis, and nothing clamped it
OneTileScroll ==
    /\ steps = 1
    /\ UnclampedScroll
    /\ args \in {<<tile_width, 0>>, <<-tile_width, 0>>,
                 <<0, tile_height>>, <<0, -tile_height>>}

C13_OneTileRoundTrip ==
    [][OneTileScroll =>
          /\ result = "True"
          /\ loaded_image.tile_xstart = old.tile_xstart - (args[1] \div tile_width)
          /\ loaded_image.tile_ystart = old.tile_ystart - (args[2] \div tile_height)
          /\ \A t \in WindowTiles(Window(loaded_image)) \cap WindowTiles(Window(old)) :
                 InImage(t, loaded_image.zoom) => SlotHoldsTile(loaded_image, t)
          /\ (op' = "scroll" /\ args' = <<-args[1], -args[2]>>)
                => /\ Window(loaded_image') = Window(old)
                   /\ \A t \in WindowTiles(Window(loaded_image')) :
                          SlotAsLoaded(loaded_image', t)]_vars

\* ------------------------------------------------------------------------
\* C14: zoom_to with a target in [min_zoom, max_zoom] other than the current
\* zoom returns True, makes the target the current zoom and reloads
\* everything: the tile window is the one of the new viewport position and
\* every slot of the canvas is what a load into a new buffer makes of it at
\* the new zoom.
\* ------------------------------------------------------------------------
\* the last operation was a zoom_to that had to change the zoom
ZoomChange ==
    /\ op = "zoom_to"
    /\ args[1] >= min_zoom /\ args[1] <= max_zoom
    /\ args[1] /= old.zoom

C14_ZoomToReloads ==
    ZoomChange =>
        /\ result = "True"
        /\ loaded_image.zoom = args[1]
        /\ Window(loaded_image)
               = WindowFor(loaded_image.viewport_x_on_fullimage,
                           loaded_image.viewport_y_on_fullimage,
                           loaded_image.viewport_width,
                           loaded_image.viewport_height)
        /\ \A t \in WindowTiles(Window(loaded_image)) :
               SlotAsLoaded(loaded_image, t)

\* the same tile window as before the zoom, with the tiles of the new zoom
C14_Witness ==
    /\ ZoomChange /\ result = "True"
    /\ loaded_image.zoom = args[1]
    /\ Window(loaded_image) = Window(old)
    /\ \E t \in WindowTiles(Window(loaded_image)) :
           /\ InImage(t, old.zoom) /\ InImage(t, loaded_image.zoom)
           /\ SlotHoldsTile(loaded_image, t)

\* ------------------------------------------------------------------------
\* C15: after a zoom_to that changes the zoom from z to z2 the viewport
\* top-left is P - floor(viewport size / 2) clamped against the image at
\* zoom z2, where P is (focus + old top-left) * 2^(z2 - z) when zooming in
\* and floor((focus + old top-left) / 2^(z - z2)) when zooming out.
\* ------------------------------------------------------------------------
\* the focus (f is its coordinate on the viewport, o the old top-left) at
\* the new zoom
Rescaled(f, o) ==
    IF args[1] > old.zoom
    THEN (f + o) * Pow2(args[1] - old.zoom)
    ELSE (f + o) \div Pow2(old.zoom - args[1])

C15_ZoomFocus ==
    (ZoomChange /\ result = "True") =>
        /\ loaded_image.viewport_x_on_fullimage
               = Clipped(Rescaled(args[2], old.viewport_x_on_fullimage)
                             - (loaded_image.viewport_width \div 2),
                         loaded_image.viewport_width, ZoomedWidth)
        /\ loaded_image.viewport_y_on_fullimage
               = Clipped(Rescaled(args[3], old.viewport_y_on_fullimage)
                             - (loaded_image.viewport_height \div 2),
                         loaded_image.viewport_height, ZoomedHeight)

\* a zoom in that leaves the viewport off both edges
C15_Witness ==
    /\ ZoomChange /\ result = "True"
    /\ args[1] > old.zoom
    /\ loaded_image.viewport_x_on_fullimage > 0
    /\ loaded_image.viewport_x_on_fullimage + loaded_image.viewport_width
           < ZoomedWidth
    /\ loaded_image.viewport_x_on_fullimage
           = Rescaled(args[2], old.viewport_x_on_fullimage)
                 - (loaded_image.viewport_width \div 2)

\* a zoom out from an odd coordinate
C15_WitnessOut ==
    /\ ZoomChange /\ result = "True"
    /\ args[1] < old.zoom
    /\ (args[2] + old.viewport_x_on_fullimage) % 2 = 1

\* ------------------------------------------------------------------------
\* C16: when some level fits the viewport, fit_to_viewport returns
\* (z, width(z), height(z)) for the most zoomed-in level z that has
\* dimensions with width(z) <= vw and height(z) < vh.
\* ------------------------------------------------------------------------
FittingLevels(vw, vh) ==
    {z \in min_zoom..max_zoom :
        Registered(z) /\ zoom_to_width(z) <= vw /\ zoom_to_height(z) < vh}

C17_FitFallback ==
    (op = "fit_to_viewport" /\ FittingLevels(args[1], args[2]) = {}) =>
        /\ result.raised = ""
        /\ result.value = <<min_zoom, zoom_to_width(min_zoom),
                            zoom_to_height(min_zoom)>>

\* ------------------------------------------------------------------------
\* C18: load_tile of a valid (tx, ty, zoom) returns a buffer whose width is
\* tile_end_x_plus_one(tx, zoom) - tile_start_x(tx) and whose height is
\* tile_end_y_plus_one(ty, zoom) - tile_start_y(ty), or raises
\* FileFormatError.
\* ------------------------------------------------------------------------
C18_LoadTileSize ==
    op = "load_tile" =>
        \/ result.raised = "FileFormatError"
        \/ /\ result.raised = ""
           /\ result.value
                  = <<tile_end_y_plus_one(args[2], args[3]) - tile_start_y(args[2]),
                      tile_end_x_plus_one(args[1], args[3]) - tile_start_x(args[1])>>

\* ------------------------------------------------------------------------
\* C19: open raises FileFormatError whenever the tile size, the pixel
\* format, the width or the height is missing or is not a number, or the
\* zoom directories cannot be listed.
\* ------------------------------------------------------------------------
MissingOrNotANumber(a) == ~a.present \/ ~a.numeric

FileDamaged(f) ==
    IF f.kind = "DZ"
    THEN \/ ~f.image_tag
         \/ MissingOrNotANumber(f.TileSize)
         \/ ~f.Format
         \/ MissingOrNotANumber(DZWidth(f))
         \/ MissingOrNotANumber(DZHeight(f))
         \/ ~f.files_dir
    ELSE \/ MissingOrNotANumber(f.tileWidth)
         \/ MissingOrNotANumber(f.tileHeight)
         \/ MissingOrNotANumber(f.sizeX)
         \/ MissingOrNotANumber(f.sizeY)

C19_OpenFailsWithFormatError ==
    (op = "open" /\ FileDamaged(args[1])) => result.raised = "FileFormatError"

\* ------------------------------------------------------------------------
\* C20: image_width_for_zoom(z) and image_height_for_zoom(z) return the
\* dimension of level z for every z in [min_zoom, max_zoom] and raise
\* ZoomError for every other z.
\* ------------------------------------------------------------------------
\* the dimension of level z of an image whose full-size dimension is n
LevelSize(n, z) ==
    IF image.kind = "DZ" THEN CeilDiv(n, Pow2(max_zoom - z))
    ELSE n \div Pow2(max_zoom - z)

C20_ZoomDimensions ==
    /\ op = "image_width_for_zoom" =>
           IF args[1] >= min_zoom /\ args[1] <= max_zoom
           THEN result = Returned(LevelSize(image.width, args[1]))
           ELSE result.raised = "ZoomError"
    /\ op = "image_height_for_zoom" =>
           IF args[1] >= min_zoom /\ args[1] <= max_zoom
           THEN result = Returned(LevelSize(image.height, args[1]))
           ELSE result.raised = "ZoomError"

C20_Witness ==
    /\ op = "image_width_for_zoom"
    /\ args[1] = max_zoom + 1
    /\ result.raised = "ZoomError"

\* a level below the first zoom directory
C20_WitnessBelow ==
    /\ op = "image_height_for_zoom"
    /\ args[1] >= 0 /\ args[1] < min_zoom
    /\ result.raised = "ZoomError"

\* ------------------------------------------------------------------------
\* C21: the left (top) overlap of a tile is 0 for tile 0 and the overlap of
\* the image for every other tile; the right (bottom) overlap is 0 for the
\* last tile across (down) at the zoom of the call and the overlap of the
\* image for every other tile; for an LIImage all four are 0.
\* ------------------------------------------------------------------------
\* the overlap a side has unless it is an edge of the image
OverlapUnless(edge) ==
    IF image.kind = "DZ" /\ ~edge THEN image.overlap ELSE 0

C21_Overlaps ==
    /\ op \in {"left_overlap", "top_overlap"}
           => result = Returned(OverlapUnless(args[1] = 0))
    /\ op = "right_overlap"
           => result = Returned(OverlapUnless(
                  args[1] = CeilDiv(zoom_to_width(args[2]), tile_width) - 1))
    /\ op = "bottom_overlap"
           => result = Returned(OverlapUnless(
                  args[1] = CeilDiv(zoom_to_height(args[2]), tile_height) - 1))

\* a DeepZoom image was asked the right overlap of its last tile at a zoom
\* that has several tiles across, and the bottom overlap of an inner tile
C21_Witness ==
    /\ image.kind = "DZ"
    /\ op = "right_overlap"
    /\ args[1] > 0
    /\ args[1] = CeilDiv(zoom_to_width(args[2]), tile_width) - 1
    /\ result = Returned(0)

C21_WitnessInner ==
    /\ image.kind = "DZ"
    /\ op = "bottom_overlap"
    /\ args[1] < CeilDiv(zoom_to_height(args[2]), tile_height) - 1
    /\ result = Returned(image.overlap)
    /\ image.overlap > 0

\* ------------------------------------------------------------------------
\* C22: tile_start_x(0) = 0 and tile_start_x(t) = t * tile_width - overlap
\* for t >= 1; tile_start_x(t) < tile_end_x_plus_one(t, zoom) <=
\* image_width_for_zoom(zoom); the end of an interior tile (neither the
\* first nor the last) is its start + tile_width + 2 * overlap and the end
\* of the last tile is image_width_for_zoom(zoom); the same for y.
\* ------------------------------------------------------------------------
\* the start of tile t on an axis whose tiles have the given size
StartOf(t, size) == IF t = 0 THEN 0 ELSE t * size - image.overlap

\* tile t (start given, tiles of the given size, n of them on an axis of
\* the given extent) ends at end; the end of an interior tile is `interior`
ExtentOf(t, start, end, n, extent, interior) ==
    /\ start < end
    /\ end <= extent
    /\ t = n - 1 => end = extent
    /\ (t > 0 /\ t < n - 1) => end = interior

\* the tile extent calls, the end of an interior tile being trimmed to the
\* image or not
TileExtents(trimmed) ==
    /\ op = "tile_start_x" => result = Returned(StartOf(args[1], tile_width))
    /\ op = "tile_start_y" => result = Returned(StartOf(args[1], tile_height))
    /\ op = "tile_end_x_plus_one"
           => ExtentOf(args[1], tile_start_x(args[1]), result.value,
                       num_tiles_across(args[2]), zoom_to_width(args[2]),
                       LET e == tile_start_x(args[1]) + tile_width
                                    + 2 * image.overlap
                       IN  IF trimmed THEN Min(e, zoom_to_width(args[2])) ELSE e)
    /\ op = "tile_end_y_plus_one"
           => ExtentOf(args[1], tile_start_y(args[1]), result.value,
                       num_tiles_down(args[2]), zoom_to_height(args[2]),
                       LET e == tile_start_y(args[1]) + tile_height
                                    + 2 * image.overlap
                       IN  IF trimmed THEN Min(e, zoom_to_height(args[2])) ELSE e)

\* as stated: the end of an interior tile is never trimmed
C22_TileExtents == TileExtents(FALSE)

\* C22 with the end of an interior tile trimmed to the image: it is
\* min(start + tile_width + 2 * overlap, image_width_for_zoom(zoom))
C22_TileExtentsTrimmed == TileExtents(TRUE)

\* the end of an interior tile was asked and it is the width of the image,
\* short of start + tile_width + 2 * overlap
C22_Witness ==
    /\ op = "tile_end_x_plus_one"
    /\ args[1] > 0
    /\ args[1] < num_tiles_across(args[2]) - 1
    /\ result = Returned(zoom_to_width(args[2]))
    /\ result.value < tile_start_x(args[1]) + tile_width + 2 * image.overlap

\* ------------------------------------------------------------------------
\* C23: for every x >= 0 and every positive tile width, also one above
\* 10000, x_to_tile(x) is floor(x / tile_width); the same for y_to_tile and
\* the tile height.
\* ------------------------------------------------------------------------
C23_FloorDivision ==
    /\ op = "x_to_tile" => result = Returned(args[1] \div tile_width)
    /\ op = "y_to_tile" => result = Returned(args[1] \div tile_height)

\* ------------------------------------------------------------------------
\* C26: for both adapters image_width_for_zoom(z) and
\* image_height_for_zoom(z) never decrease as z grows from min_zoom to
\* max_zoom; at max_zoom they are the dimensions of the full image, and
\* the dimensions of every lower level are those of the next higher level
\* halved: rounded up for DZImage, rounded down for LIImage.
\* ------------------------------------------------------------------------
\* half of n as the adapter of the image rounds it
Halved(n) == IF image.kind = "DZ" THEN CeilDiv(n, 2) ELSE n \div 2

\* size is the dimension the call gives for zoom z, full the dimension of
\* the full image and next the dimension of level z + 1
HalvingStep(z, size, full, next) ==
    /\ z = max_zoom => size = full
    /\ z < max_zoom => (size = Halved(next) /\ size <= next)

C26_Halving ==
    /\ (op = "image_width_for_zoom" /\ args[1] \in min_zoom..max_zoom)
           => /\ result.raised = ""
              /\ HalvingStep(args[1], result.value, image.width,
                             image_width_for_zoom(args[1] + 1).value)
    /\ (op = "image_height_for_zoom" /\ args[1] \in min_zoom..max_zoom)
           => /\ result.raised = ""
              /\ HalvingStep(args[1], result.value, image.height,
                             image_height_for_zoom(args[1] + 1).value)

\* the width of a level below the largest of a DeepZoom image was asked,
\* and the width of the next level is odd: halving it rounds
C26_Witness ==
    /\ image.kind = "DZ"
    /\ op = "image_width_for_zoom"
    /\ args[1] \in min_zoom..(max_zoom - 1)
    /\ image_width_for_zoom(args[1] + 1).value % 2 = 1
    /\ result = Returned((image_width_for_zoom(args[1] + 1).value + 1) \div 2)

\* ------------------------------------------------------------------------
\* C24: to_qimage on a loaded engine succeeds when the canvas has 1, 3 or 4
\* channels and fails with NotImplementedException for every other number
\* of channels.
\* ------------------------------------------------------------------------
C24_ToQImageChannels ==
    (op = "to_qimage" /\ Loaded) =>
        IF TileChannels \in {1, 3, 4}
        THEN result.raised = ""
        ELSE result.raised = "NotImplementedException"

\* ------------------------------------------------------------------------
\* C25: to_qimage and get_rect return the rectangle at (viewport_x,
\* viewport_y) of width min(viewport_width, canvas_width) and height
\* min(viewport_height, canvas_height); in every loaded state this
\* rectangle is the intersection of the viewport and the canvas; the
\* buffer to_qimage returns is the whole canvas.
\* ------------------------------------------------------------------------
\* the rectangle a read of the engine returned
ReturnedRect == IF op = "to_qimage" THEN result.value.rect ELSE result.value

\* (start, length) of the part of [x, x + size) inside [0, extent)
Inside(x, size, extent) == <<Max(x, 0), Min(x + size, extent) - Max(x, 0)>>

C25_RectIsViewportOnCanvas ==
    (op \in {"to_qimage", "get_rect"} /\ Loaded /\ result.raised = "") =>
        LET s == loaded_image
            r == ReturnedRect
        IN  /\ r = <<s.viewport_x, s.viewport_y,
                     Min(s.viewport_width, s.canvas_width),
                     Min(s.viewport_height, s.canvas_height)>>
            /\ <<r[1], r[3]>> = Inside(s.viewport_x, s.viewport_width,
                                       s.canvas_width)
            /\ <<r[2], r[4]>> = Inside(s.viewport_y, s.viewport_height,
                                       s.canvas_height)
            /\ op = "to_qimage"
                   => /\ result.value.image.width = s.pixels.w
                      /\ result.value.image.height = s.pixels.h

\* ------------------------------------------------------------------------
\* C27: in every loaded state and for every target (x, y), also one so far
\* away that the new tile window shares no tile with the current one,
\* scroll_to runs to its end without raising and returns a boolean.
\* ------------------------------------------------------------------------
C27_ScrollToReturns ==
    op = "scroll_to" => result \in {"True", "False"}

\* ------------------------------------------------------------------------
\* C28: in every loaded state reached by zoom assignments, load_image (with
\* a zoom or with FIT), zoom_to, scroll_to and resize, the zoom of the engine
\* lies between min_zoom and max_zoom and has registered dimensions.
\* ------------------------------------------------------------------------
C28_ZoomRegistered ==
    Loaded => /\ loaded_image.zoom \in min_zoom..max_zoom
              /\ Registered(loaded_image.zoom)

\* ------------------------------------------------------------------------
\* C29: in every loaded state viewport_x = viewport_x_on_fullimage -
\* tile_start_x(tile_xstart) and viewport_y = viewport_y_on_fullimage -
\* tile_start_y(tile_ystart).
\* ------------------------------------------------------------------------
C29_ViewportOffset ==
    Loaded =>
        /\ loaded_image.viewport_x = loaded_image.viewport_x_on_fullimage
                                         - tile_start_x(loaded_image.tile_xstart)
        /\ loaded_image.viewport_y = loaded_image.viewport_y_on_fullimage
                                         - tile_start_y(loaded_image.tile_ystart)

\* ------------------------------------------------------------------------
\* C30: in every loaded state, also after a scroll_to that changed the tile
\* window, _canvas_x = tile_start_x(_tile_xstart) and _canvas_y =
\* tile_start_y(_tile_ystart).
\* ------------------------------------------------------------------------
C30_CanvasOrigin ==
    Loaded =>
        /\ loaded_image.canvas_x = tile_start_x(loaded_image.tile_xstart)
        /\ loaded_image.canvas_y = tile_start_y(loaded_image.tile_ystart)

\* ------------------------------------------------------------------------
\* C31: in every loaded state reached by load_image, scroll_to, zoom_to and
\* resize, tile_xstart = x_to_tile(viewport_x_on_fullimage) - extra_tiles
\* and tile_xend = tile_xstart + ceil(viewport_width / tile_width)
\* + 2 * extra_tiles, and likewise for y.
\* ------------------------------------------------------------------------
C31_TileWindow ==
    Loaded =>
        LET s == loaded_image
        IN  /\ s.tile_xstart = x_to_tile(s.viewport_x_on_fullimage) - extra_tiles
            /\ s.tile_xend = s.tile_xstart + CeilDiv(s.viewport_width, tile_width)
                                 + 2 * extra_tiles
            /\ s.tile_ystart = y_to_tile(s.viewport_y_on_fullimage) - extra_tiles
            /\ s.tile_yend = s.tile_ystart + CeilDiv(s.viewport_height, tile_height)
                                 + 2 * extra_tiles

\* ------------------------------------------------------------------------
\* C32: during a scroll_to that returns True, load_tile is called exactly
\* once for each tile that is in the new tile window, in the image and not
\* in the old tile window, and never for a tile of both windows; during a
\* scroll_to that returns False load_tile is not called.
\* ------------------------------------------------------------------------
\* number of calls of load_tile for tile t during the last operation
Calls(t) == Cardinality({k \in 1..Len(fetched) : fetched[k] = t})

C32_FetchesOnlyNewTiles ==
    /\ (ScrollOp /\ result = "True") =>
           \A t \in WindowTiles(Window(loaded_image))
                      \cup WindowTiles(Window(old))
                      \cup {fetched[k] : k \in 1..Len(fetched)} :
               Calls(t) = IF t \in NewTiles THEN 1 ELSE 0
    /\ (ScrollOp /\ result = "False") => fetched = <<>>

\* a scroll fetched tiles and kept a tile of the image that is in both
\* windows
C32_Witness ==
    /\ ScrollOp /\ result = "True"
    /\ fetched /= <<>>
    /\ \E t \in WindowTiles(Window(loaded_image)) \cap WindowTiles(Window(old)) :
           InImage(t, loaded_image.zoom) /\ Calls(t) = 0

\* ------------------------------------------------------------------------
\* C33: a scroll_to that returns False leaves the canvas pixels, the tile
\* window, the zoom and the viewport size unchanged; it changes at most the
\* viewport top-left and the offset of the viewport in the canvas, both by
\* the same amount, and nothing at all when the clamped target is the
\* current top-left.
\* ------------------------------------------------------------------------
\* the target of the scroll that is being taken, clipped to the image
NextTarget ==
    LET s == loaded_image
        req == IF op' = "scroll"
               THEN <<s.viewport_x_on_fullimage - args'[1],
                      s.viewport_y_on_fullimage - args'[2]>>
               ELSE args'
    IN  <<Clipped(req[1], s.viewport_width, ZoomedWidth),
          Clipped(req[2], s.viewport_height, ZoomedHeight)>>

C33_FalseScrollFrame ==
    [][(op' \in {"scroll", "scroll_to"} /\ result' = "False") =>
          /\ loaded_image'.pixels = loaded_image.pixels
          /\ Window(loaded_image') = Window(loaded_image)
          /\ loaded_image'.zoom = loaded_image.zoom
          /\ loaded_image'.viewport_width = loaded_image.viewport_width
          /\ loaded_image'.viewport_height = loaded_image.viewport_height
          /\ loaded_image' =
                 [loaded_image EXCEPT
                    !.viewport_x = loaded_image'.viewport_x,
                    !.viewport_y = loaded_image'.viewport_y,
                    !.viewport_x_on_fullimage = loaded_image'.viewport_x_on_fullimage,
                    !.viewport_y_on_fullimage = loaded_image'.viewport_y_on_fullimage]
          /\ loaded_image'.viewport_x - loaded_image.viewport_x
                 = loaded_image'.viewport_x_on_fullimage
                      - loaded_image.viewport_x_on_fullimage
          /\ loaded_image'.viewport_y - loaded_image.viewport_y
                 = loaded_image'.viewport_y_on_fullimage
                      - loaded_image.viewport_y_on_fullimage
          /\ (NextTarget = <<loaded_image.viewport_x_on_fullimage,
                             loaded_image.viewport_y_on_fullimage>>)
                 => loaded_image' = loaded_image]_vars

\* a scroll returned False and moved the viewport inside its tile window
C33_Witness ==
    /\ ScrollOp /\ result = "False"
    /\ <<loaded_image.viewport_x_on_fullimage, loaded_image.viewport_y_on_fullimage>>
           /= <<old.viewport_x_on_fullimage, old.viewport_y_on_fullimage>>
    /\ loaded_image.viewport_x - old.viewport_x
           = loaded_image.viewport_x_on_fullimage - old.viewport_x_on_fullimage

\* ------------------------------------------------------------------------
\* C34: load_image(centerx, centery) with both coordinates sets the viewport
\* top-left to (centerx - floor(viewport_width / 2),
\* centery - floor(viewport_height / 2)) clamped on each axis into
\* [0, zoomed dimension - viewport dimension] (0 when the image is smaller
\* than the viewport); without a centre it keeps the current top-left,
\* clamped the same way.
\* ------------------------------------------------------------------------
\* the top-left load_image was asked for, before clamping
LoadTarget ==
    IF op = "open" THEN args[2]
    ELSE IF args[2] = None
         THEN <<old.viewport_x_on_fullimage, old.viewport_y_on_fullimage>>
         ELSE <<args[2][1] - old.viewport_width \div 2,
                args[2][2] - old.viewport_height \div 2>>

C34_LoadImageTopLeft ==
    (op \in {"open", "load_image"} /\ result = "None") =>
        /\ loaded_image.viewport_x_on_fullimage
               = Clipped(LoadTarget[1], loaded_image.viewport_width, ZoomedWidth)
        /\ loaded_image.viewport_y_on_fullimage
               = Clipped(LoadTarget[2], loaded_image.viewport_height, ZoomedHeight)

\* ------------------------------------------------------------------------
\* C35: a resize in a Loaded state is a full reload: after it the viewport
\* top-left is the previous top-left clamped for the new viewport size, and
\* the tile window, the viewport offset and the canvas contents are those a
\* newly constructed engine produces by load_image at the same zoom,
\* top-left and viewport size, whatever the canvas held before.
\* ------------------------------------------------------------------------
\* a newly constructed engine after load_image at the zoom, top-left and
\* viewport size of the current one
FreshLoad ==
    load_image([NewLoadedImage EXCEPT
                  !.zoom = loaded_image.zoom,
                  !.viewport_x_on_fullimage = loaded_image.viewport_x_on_fullimage,
                  !.viewport_y_on_fullimage = loaded_image.viewport_y_on_fullimage,
                  !.viewport_width = loaded_image.viewport_width,
                  !.viewport_height = loaded_image.viewport_height], None).self

SameAsFresh ==
    /\ Window(loaded_image) = Window(FreshLoad)
    /\ loaded_image.viewport_x = FreshLoad.viewport_x
    /\ loaded_image.viewport_y = FreshLoad.viewport_y
    /\ loaded_image.pixels = FreshLoad.pixels

C35_ResizeReloads ==
    (op = "resize" /\ result = "None") =>
        /\ loaded_image.viewport_x_on_fullimage
               = Clipped(old.viewport_x_on_fullimage, args[1], ZoomedWidth)
        /\ loaded_image.viewport_y_on_fullimage
               = Clipped(old.viewport_y_on_fullimage, args[2], ZoomedHeight)
        /\ SameAsFresh

\* a resize to another size, which the clamp answered by moving the top-left
C35_Witness ==
    /\ op = "resize" /\ result = "None"
    /\ loaded_image.viewport_height /= old.viewport_height
    /\ loaded_image.viewport_y_on_fullimage /= old.viewport_y_on_fullimage
    /\ SameAsFresh

\* ------------------------------------------------------------------------
\* C36: incremental scrolling is equivalent to reloading: after load_image
\* followed by any sequence of scroll_to calls, the tile window, the
\* viewport offset in the canvas and the canvas contents equal those a fresh
\* load_image at the same zoom, viewport size and final viewport top-left
\* produces, for images with and without tile overlap.
\* ------------------------------------------------------------------------
C36_ScrollIsReload ==
    (ScrollOp /\ result \in {"True", "False"}) => SameAsFresh

\* ------------------------------------------------------------------------
\* C37: in every Loaded state, the canvas pixel at
\* (viewport_x + i, viewport_y + j) is the full-image pixel at
\* (viewport_x_on_fullimage + i, viewport_y_on_fullimage + j) at the current
\* zoom, for every (i, j) inside the viewport whose full-image coordinate
\* lies inside the image, for images with and without tile overlap.
\* ------------------------------------------------------------------------
\* the canvas has a pixel at row r and column c, and it is image pixel (x, y)
ShowsPixel(r, c, x, y) ==
    /\ r \in 0..(loaded_image.pixels.h - 1)
    /\ c \in 0..(loaded_image.pixels.w - 1)
    /\ At(loaded_image.pixels, r, c) = SourcePixel(loaded_image.zoom, x, y)

C37_ViewportShowsImage ==
    Loaded =>
        \A i \in 0..(loaded_image.viewport_width - 1),
           j \in 0..(loaded_image.viewport_height - 1) :
            LET x == loaded_image.viewport_x_on_fullimage + i
                y == loaded_image.viewport_y_on_fullimage + j
            IN  (x \in 0..(ZoomedWidth - 1) /\ y \in 0..(ZoomedHeight - 1))
                    => ShowsPixel(loaded_image.viewport_y + j,
                                  loaded_image.viewport_x + i, x, y)

\* ------------------------------------------------------------------------
\* C38: for every zoom, every valid tile index t and every overlap, the
\* block _load_tiles copies into the canvas for tile t (the tile without its
\* left and right overlap) covers exactly the full-image columns
\* [t * tile_width, min((t + 1) * tile_width, image width)): it is never
\* wider than tile_width, and consecutive tiles leave no image column
\* uncovered.  The same holds for rows.
\* ------------------------------------------------------------------------
\* the image columns and rows of the block copied for tile t
BlockColumns(t) ==
    LET cp == TileCopy(loaded_image.pixels, loaded_image, t)
    IN  {cp.img.x0 + c : c \in cp.sc[1]..(cp.sc[2] - 1)}

BlockRows(t) ==
    LET cp == TileCopy(loaded_image.pixels, loaded_image, t)
    IN  {cp.img.y0 + r : r \in cp.sr[1]..(cp.sr[2] - 1)}

C38_BlockCoversSlot ==
    (Loaded /\ op \in {"open", "load_image", "scroll_to", "scroll", "zoom_to", "resize"}) =>
        \A k \in 1..Len(fetched) :
            LET t == fetched[k]
            IN  /\ BlockColumns(t)
                       = (t[1] * tile_width)
                            ..(Min((t[1] + 1) * tile_width, ZoomedWidth) - 1)
                /\ BlockRows(t)
                       = (t[2] * tile_height)
                            ..(Min((t[2] + 1) * tile_height, ZoomedHeight) - 1)

\* ------------------------------------------------------------------------
\* C39: from a Loaded state at zoom z, with c = (floor(viewport_width / 2),
\* floor(viewport_height / 2)): when top-left + c is even on both axes and
\* no clamping occurs at either zoom, zoom_to(z - 1, c) followed by
\* zoom_to(z, c) restores the original viewport top-left and tile window;
\* when top-left + c is odd on an axis the restored top-left is exactly one
\* pixel lower on that axis.
\* ------------------------------------------------------------------------
\* the centre of the viewport of engine s, on the viewport
Centre(s) == <<s.viewport_width \div 2, s.viewport_height \div 2>>

\* load_image(centre) on engine s takes the top-left as it is
NotClamped(s, centre) ==
    /\ Clipped(centre[1] - s.viewport_width \div 2, s.viewport_width,
               s.zoomed_image_width[1]) = centre[1] - s.viewport_width \div 2
    /\ Clipped(centre[2] - s.viewport_height \div 2, s.viewport_height,
               s.zoomed_image_height[1]) = centre[2] - s.viewport_height \div 2

\* the last step zoomed out by one level about the centre, and the step
\* that is being taken zooms back in about the centre; old is the engine
\* before the two steps
ZoomOutAndIn ==
    /\ op = "zoom_to" /\ result = "True"
    /\ args = <<old.zoom - 1, Centre(old)[1], Centre(old)[2]>>
    /\ op' = "zoom_to" /\ result' = "True"
    /\ args' = <<old.zoom, Centre(old)[1], Centre(old)[2]>>
    /\ NotClamped(loaded_image,
                  <<(old.viewport_x_on_fullimage + Centre(old)[1]) \div 2,
                    (old.viewport_y_on_fullimage + Centre(old)[2]) \div 2>>)
    /\ NotClamped(loaded_image',
                  <<2 * (loaded_image.viewport_x_on_fullimage + Centre(old)[1]),
                    2 * (loaded_image.viewport_y_on_fullimage + Centre(old)[2])>>)

\* what the round trip takes off a coordinate
Lost(v, c) == (v + c) % 2

C39_ZoomOutAndIn ==
    [][ZoomOutAndIn =>
          /\ loaded_image'.viewport_x_on_fullimage
                 = old.viewport_x_on_fullimage
                      - Lost(old.viewport_x_on_fullimage, Centre(old)[1])
          /\ loaded_image'.viewport_y_on_fullimage
                 = old.viewport_y_on_fullimage
                      - Lost(old.viewport_y_on_fullimage, Centre(old)[2])
          /\ (/\ Lost(old.viewport_x_on_fullimage, Centre(old)[1]) = 0
              /\ Lost(old.viewport_y_on_fullimage, Centre(old)[2]) = 0)
                 => Window(loaded_image') = Window(old)]_vars

\* the second zoom_to about the centre, back in by one level, took its
\* top-left unclamped
C39_Witness ==
    /\ steps = 2
    /\ op = "zoom_to" /\ result = "True"
    /\ loaded_image.zoom = old.zoom + 1
    /\ args = <<loaded_image.zoom, Centre(old)[1], Centre(old)[2]>>
    /\ NotClamped(loaded_image,
                  <<2 * (old.viewport_x_on_fullimage + Centre(old)[1]),
                    2 * (old.viewport_y_on_fullimage + Centre(old)[2])>>)
    /\ loaded_image.viewport_x_on_fullimage
           = 2 * (old.viewport_x_on_fullimage + Centre(old)[1]) - Centre(old)[1]

====
